---- MODULE Spec2Model ----
(***************************************************************************)
(* A model of the HTTP/1.1 origin server of cop4635-project1:              *)
(*   - FileResolver::sanitizePath       (specification SpecPath)           *)
(*   - ConnectionHandler, both variants (specification SpecConn)           *)
(*   - ThreadPool with its acceptor     (specifications SpecPool,          *)
(*                                       SpecNull, LivePool, LiveStop)     *)
(*   - Socket: ownership of descriptors (specification SpecSocket)         *)
(*   - Socket::send                     (specification SpecSend)           *)
(*   - HttpServer::start, EpollManager  (specification SpecAccept)         *)
(* Strings that the code inspects character by character (paths, URIs) are *)
(* sequences of one-character strings; request bytes are sequences of      *)
(* tokens, with "SP" and "CRLF" standing for " " and "\r\n".              *)
(***************************************************************************)
EXTENDS Integers, Sequences, FiniteSets, TLC

VARIABLES
    \* ---- FileResolver (SpecPath)
    uri,            \* the URI handed to sanitizePath
    sanitized,      \* the variant sanitizePath returned, or NoResult
    \* ---- ConnectionHandler (SpecConn)
    variant,        \* which of the two connection_handler.cpp variants is built
    running,        \* HttpServer::running
    hpc,            \* where processRequests is
    requestCount,   \* processRequests: requestCount
    totalElapsedMs, \* waitForData: totalElapsedMs
    exch,           \* the exchange handleRequest has just made
    sock,           \* the client socket: "open", "shutdown", "closed"
    \* ---- ThreadPool and acceptor (SpecPool, LivePool)
    numThreads,     \* ThreadPool::ThreadPool: numThreads
    workers,        \* ThreadPool::workers, as the set of worker ids it holds
    task_queue,     \* ThreadPool::task_queue
    stop,           \* ThreadPool::stop
    queue_mtx,      \* ThreadPool::queue_mtx: Free or Held(thread, context)
    cvWaiting,      \* the workers blocked in cv.wait
    wpc,            \* workerThread: where each worker is
    w_sock,         \* workerThread: client_socket of each worker
    handler,        \* the socket the ConnectionHandler of each thread owns
    apc,            \* where the acceptor thread is
    a_sock,         \* acceptConnections / enqueue: client_socket
    accepted,       \* the number of descriptors accept has returned
    sig,            \* the thread the signal handler runs on, as a set
    spc,            \* where each call of stop / ThreadPool::shutdown is
    joinIdx,        \* shutdown: the index of the worker each call joins next
    shutdownFlag,   \* HttpServer::stop: the once_flag has been taken
    crashed,        \* std::terminate was called
    closed,         \* the sockets that have been destroyed (descriptor closed)
    enqOrder,       \* history: the sockets pushed to task_queue, in order
    deqOrder,       \* history: the sockets taken from task_queue, in order
    startOrder,     \* history: the sockets handlers were constructed for, in order
    joined,         \* history: the workers join() has returned for, in order
    stopBodies,     \* history: how often the body of HttpServer::stop was entered
    intr,           \* the signal handler interrupted a handler run inside enqueue
    refused,        \* history: enqueue has returned at its test for a null socket
    \* ---- Socket (SpecSocket)
    alive,          \* the Socket objects constructed and not yet destroyed
    socket_fd,      \* Socket::socket_fd of each object
    fdCount,        \* the number of descriptors the OS has handed out
    closes,         \* history: how often ::close was called on each descriptor
    lastOp,         \* history: the Socket operation that ran last
    \* ---- Socket::send and Socket::sendfile (SpecSend, LiveSend)
    sendOp,         \* which of the two is called: "send" or "sendfile"
    sendPc,         \* where the call is
    sendLen,        \* send: len; sendfile: count
    totalSent,      \* totalSent
    sendRet,        \* the value the call returned
    sysLog,         \* history: the system calls made, with what the OS answered;
                    \* a would-block or end-of-file answer that repeats the
                    \* one before it is recorded once
    \* ---- HttpServer::start, acceptConnections, EpollManager (SpecAccept)
    lpc,            \* where the loop of start is
    pending,        \* the connections waiting in the backlog of the listener
    wakeupReady,          \* the eventfd wakeup_fd is readable
    events,         \* start: events, the entries not yet visited
    lastWait,       \* history: the last call of waitForEvents
    client_fd,      \* acceptConnections: client_fd
    acceptErr,      \* errno after accept
    acceptCount,    \* the number of descriptors accept has returned
    handed          \* history: the descriptors passed to enqueue, in order

pathVars == <<uri, sanitized>>
connVars == <<variant, running, hpc, requestCount, totalElapsedMs, exch, sock>>
handlerVars == <<variant, hpc, requestCount, totalElapsedMs, exch, sock>>
poolVars == <<numThreads, workers, task_queue, stop, queue_mtx, cvWaiting, wpc,
              w_sock, handler, apc, a_sock, accepted, sig, spc, joinIdx,
              shutdownFlag, crashed, closed, enqOrder, deqOrder, startOrder,
              joined, stopBodies, intr, refused>>
socketVars == <<alive, socket_fd, fdCount, closes, lastOp>>
sendVars == <<sendOp, sendPc, sendLen, totalSent, sendRet, sysLog>>
acceptVars == <<lpc, pending, wakeupReady, events, lastWait, client_fd, acceptErr,
                acceptCount, handed>>
osVars == <<socketVars, sendVars, acceptVars>>
\* the histories only the shutdown path writes
lifeVars == <<joined, stopBodies, intr, refused>>

\* ======================================================================
\* Generic sequence helpers (std::string operations used by the code)
\* ======================================================================

NoResult == [kind |-> "none"]

\* std::string::find(needle) == 0 : needle is a character prefix of s
StartsWith(s, needle) ==
    /\ Len(needle) <= Len(s)
    /\ SubSeq(s, 1, Len(needle)) = needle

\* Concatenate the segments of a path, each preceded by '/'
RECURSIVE JoinSegs(_)
JoinSegs(segs) ==
    IF segs = <<>> THEN <<>>
    ELSE <<"/">> \o Head(segs) \o JoinSegs(Tail(segs))

\* Split a character string on '/', keeping empty segments
RECURSIVE SplitAcc(_, _, _)
SplitAcc(s, cur, acc) ==
    IF s = <<>> THEN Append(acc, cur)
    ELSE IF Head(s) = "/" THEN SplitAcc(Tail(s), <<>>, Append(acc, cur))
    ELSE SplitAcc(Tail(s), Append(cur, Head(s)), acc)

SplitSlash(s) == SplitAcc(s, <<>>, <<>>)

\* ======================================================================
\* The file system the resolver runs against
\* ======================================================================

\* File names, as character strings
Name ==
    [srv  |-> <<"s">>,
     www  |-> <<"w">>,
     wwwx |-> <<"w", "x">>,           \* a sibling of the root: "<root>x"
     etc  |-> <<"e">>,
     idx  |-> <<"i", ".", "h">>,      \* index.html
     sec  |-> <<"k", ".", "h">>,      \* a file of the sibling directory
     pwd  |-> <<"p">>,                \* a file outside the root
     dir  |-> <<"d">>,                \* a directory under the root
     bin  |-> <<"b", ".", "z">>,      \* a file with an unknown extension
     big  |-> <<"g", ".", "h">>,      \* a file one byte above the sendfile threshold
     edge |-> <<"m", ".", "h">>,      \* a file of exactly the threshold size
     lnk  |-> <<"l">>]                \* a symbolic link under the root

\* Canonical paths (sequences of names) that exist, with their kind
FsDirs  == { <<>>, <<Name.srv>>, <<Name.srv, Name.www>>, <<Name.srv, Name.wwwx>>, <<Name.etc>>,
             <<Name.srv, Name.www, Name.dir>> }
FsFiles == { <<Name.srv, Name.www, Name.idx>>, <<Name.srv, Name.www, Name.bin>>,
             <<Name.srv, Name.www, Name.big>>, <<Name.srv, Name.www, Name.edge>>,
             <<Name.srv, Name.www, Name.dir, Name.idx>>,
             <<Name.srv, Name.wwwx, Name.sec>>, <<Name.etc, Name.pwd>> }
\* Symbolic links: canonical location -> canonical target
FsLinks == { <<Name.srv, Name.www, Name.lnk>> }
LinkTarget(p) == <<Name.etc, Name.pwd>>

\* Config::getRootFolder() and Config::getIndexFile()
RootFolder == JoinSegs(<<Name.srv, Name.www>>)
IndexFile  == Name.idx

\* realpath(3): resolve a path name component by component.  Returns the
\* canonical path as a sequence of names, or "fail" (NULL).
RECURSIVE RealpathWalk(_, _)
RealpathWalk(cur, rest) ==
    IF rest = <<>> THEN [ok |-> TRUE, segs |-> cur]
    ELSE LET seg == Head(rest) IN
         IF cur \in FsFiles THEN [ok |-> FALSE, segs |-> <<>>]      \* ENOTDIR
         ELSE IF seg = <<>> \/ seg = <<".">> THEN RealpathWalk(cur, Tail(rest))
         ELSE IF seg = <<".", ".">> THEN
              RealpathWalk(IF cur = <<>> THEN cur ELSE SubSeq(cur, 1, Len(cur) - 1),
                           Tail(rest))
         ELSE LET nxt == Append(cur, seg) IN
              IF nxt \in FsLinks THEN RealpathWalk(LinkTarget(nxt), Tail(rest))
              ELSE IF nxt \in FsDirs \cup FsFiles THEN RealpathWalk(nxt, Tail(rest))
              ELSE [ok |-> FALSE, segs |-> <<>>]                    \* ENOENT

\* realpath of a character string; the result string is "/" for the root
\* directory and "/a/b" otherwise
realpath(path) ==
    LET Canonical(r) ==
            IF ~r.ok THEN [ok |-> FALSE, str |-> <<>>, segs |-> <<>>]
            ELSE [ok |-> TRUE,
                  str |-> IF r.segs = <<>> THEN <<"/">> ELSE JoinSegs(r.segs),
                  segs |-> r.segs]
    IN Canonical(RealpathWalk(<<>>, SplitSlash(path)))

\* stat(2) and S_ISREG on a canonical path
StatOk(segs) == segs \in FsDirs \cup FsFiles
IsRegular(segs) == segs \in FsFiles

\* st_size of a regular file: one file is one byte above 128 KiB, one is
\* exactly 128 KiB
FileSize(segs) ==
    IF segs = <<Name.srv, Name.www, Name.big>> THEN 131073
    ELSE IF segs = <<Name.srv, Name.www, Name.edge>> THEN 131072
    ELSE 512

\* ======================================================================
\* FileResolver::sanitizePath
\* ======================================================================

Path(p)   == [kind |-> "path", path |-> p]
Status(c) == [kind |-> "status", code |-> c]

\* sanitizePath: the canonical root, the target built from the URI, its
\* canonical form, the containment test (fullPath.find(root) != 0), then stat
sanitizePath(u) ==
    LET TargetPath(root) ==
            LET slash == IF root # <<>> /\ root[Len(root)] # "/" THEN <<"/">> ELSE <<>> IN
            IF u = <<>> \/ u = <<"/">> THEN root \o slash \o IndexFile
            ELSE root \o slash \o (IF Head(u) = "/" THEN Tail(u) ELSE u)
        CheckTarget(full, root) ==
            IF ~full.ok THEN Status(404)
            ELSE IF ~StartsWith(full.str, root) THEN Status(403)
            ELSE IF ~StatOk(full.segs) THEN Status(404)
            ELSE IF ~IsRegular(full.segs) THEN Status(403)
            ELSE Path(full.str)
        ResolveUnder(rootR) ==
            IF ~rootR.ok THEN Status(500)
            ELSE CheckTarget(realpath(TargetPath(rootR.str)), rootR.str)
    IN ResolveUnder(realpath(RootFolder))

\* ---- inputs: URIs of up to MaxUriSegs path segments
MaxUriSegs == 3

UriNames == { <<".", ".">>, Name.www, Name.wwwx, Name.etc, Name.idx, Name.sec, Name.pwd, Name.dir, Name.lnk }

RECURSIVE SegSeqs(_)
SegSeqs(n) ==
    IF n = 0 THEN { <<>> }
    ELSE LET shorter == SegSeqs(n - 1) IN
         shorter \cup { Append(s, x) : s \in { t \in shorter : Len(t) = n - 1 },
                                       x \in UriNames }

Uris == { <<>> } \cup { <<"/">> } \cup { JoinSegs(s) : s \in SegSeqs(MaxUriSegs) \ { <<>> } }

\* ======================================================================
\* Request bytes as tokens
\* ======================================================================

\* std::string_view::find(tok, from): the first index >= from holding tok,
\* 0 for npos (indices are 1-based)
RECURSIVE FindTok(_, _, _)
FindTok(s, tok, from) ==
    IF from > Len(s) THEN 0
    ELSE IF s[from] = tok THEN from
    ELSE FindTok(s, tok, from + 1)

\* find("\r\n\r\n", from): the first index >= from of two adjacent "CRLF"
RECURSIVE FindCrlfCrlf(_, _)
FindCrlfCrlf(s, from) ==
    IF from + 1 > Len(s) THEN 0
    ELSE IF s[from] = "CRLF" /\ s[from + 1] = "CRLF" THEN from
    ELSE FindCrlfCrlf(s, from + 1)

\* find_first_not_of(" ", from)
RECURSIVE FindNotSp(_, _)
FindNotSp(s, from) ==
    IF from > Len(s) THEN 0
    ELSE IF s[from] # "SP" THEN from
    ELSE FindNotSp(s, from + 1)

\* substr(pos, n) with 1-based pos, clamped at the end as std::string does
Sub(s, pos, n) ==
    LET last == IF pos + n - 1 > Len(s) THEN Len(s) ELSE pos + n - 1 IN
    SubSeq(s, pos, last)

\* ======================================================================
\* HttpMessage: the header map
\* ======================================================================

NoHeaders == <<>>

RECURSIVE HeaderIndex(_, _, _)
HeaderIndex(hs, name, i) ==
    IF i > Len(hs) THEN 0
    ELSE IF hs[i][1] = name THEN i
    ELSE HeaderIndex(hs, name, i + 1)

\* getHeader: an optional value
HeaderAt(hs, i) ==
    IF i = 0 THEN [has |-> FALSE, val |-> <<>>]
    ELSE [has |-> TRUE, val |-> hs[i][2]]

getHeader(hs, name) == HeaderAt(hs, HeaderIndex(hs, name, 1))

\* setHeader: the first value set for a name is the one the map keeps
setHeader(hs, name, value) ==
    IF HeaderIndex(hs, name, 1) # 0 THEN hs
    ELSE Append(hs, <<name, value>>)

\* ======================================================================
\* http::method
\* ======================================================================

\* http::method::fromString: an unknown token gives INVALID
fromString(str) ==
    IF str = <<"GET">> THEN "GET"
    ELSE IF str = <<"POST">> THEN "POST"
    ELSE "INVALID"

\* http::method::isValid
isValid(method) == method # "INVALID"

\* http::method::toString, as the token string the request stores
methodToString(method) == <<method>>

\* ======================================================================
\* HttpRequest::parse
\* ======================================================================

EmptyRequest ==
    [method |-> <<>>, uri |-> <<>>, version |-> <<>>,
     headers |-> NoHeaders, body |-> <<>>]

\* HttpMessage::setVersion: the string is stored as it is
setVersion(req, version) == [req EXCEPT !.version = version]

\* parseStartLine: [ok, req]
parseStartLine(req, line) ==
    LET Parts(methodEnd, uriEnd, method) ==
            IF methodEnd = 0 \/ uriEnd = 0 THEN [ok |-> FALSE, req |-> req]
            ELSE IF ~isValid(method) THEN [ok |-> FALSE, req |-> req]
            ELSE [ok |-> TRUE,
                  req |-> setVersion([req EXCEPT
                                        !.method = methodToString(method),
                                        !.uri = SubSeq(line, methodEnd + 1, uriEnd - 1)],
                                     SubSeq(line, uriEnd + 1, Len(line)))]
        Ends(methodEnd) ==
            IF methodEnd = 0 THEN [ok |-> FALSE, req |-> req]
            ELSE Parts(methodEnd, FindTok(line, "SP", methodEnd + 1),
                       fromString(SubSeq(line, 1, methodEnd - 1)))
    IN Ends(FindTok(line, "SP", 1))

\* parseHeaders: one header per "CRLF"-separated line; the name runs up to ':',
\* the value from the first non-space after it
RECURSIVE parseHeadersFrom(_, _, _)
parseHeadersFrom(hs, block, pos) ==
    LET Value(header, valueStart) ==
            IF valueStart # 0 THEN SubSeq(header, valueStart, Len(header)) ELSE <<>>
        AddHeader(header, separator) ==
            IF header = <<>> \/ separator = 0 THEN hs
            ELSE setHeader(hs, SubSeq(header, 1, separator - 1),
                           Value(header, FindNotSp(header, separator + 1)))
        AddLine(header) == AddHeader(header, FindTok(header, ":", 1))
        Line(end) ==
            parseHeadersFrom(AddLine(SubSeq(block, pos, end - 1)), block,
                             IF end = Len(block) + 1 THEN end ELSE end + 1)
        LineEnd(found) == Line(IF found = 0 THEN Len(block) + 1 ELSE found)
    IN IF pos > Len(block) THEN hs
       ELSE LineEnd(FindTok(block, "CRLF", pos))

parseHeaders(block) == parseHeadersFrom(NoHeaders, block, 1)

\* std::stoul on a header value: [ok, n]; ok = FALSE is invalid_argument
MaxContentLength == 4
Numbers == 0..MaxContentLength \cup {512, 131072, 131073}
stoul(value) ==
    IF value = <<>> THEN [ok |-> FALSE, n |-> 0]
    ELSE IF \A n \in Numbers : ToString(n) # value[1] THEN [ok |-> FALSE, n |-> 0]
    ELSE [ok |-> TRUE, n |-> CHOOSE n \in Numbers : ToString(n) = value[1]]

\* parseBody: [ok, body]; bodyStart is the 1-based index of the first body byte
parseBody(headers, rawData, bodyStart) ==
    LET OfLength(n) ==
            IF ~n.ok THEN [ok |-> FALSE, body |-> <<>>]
            ELSE IF Len(rawData) - bodyStart + 1 >= n.n
                 THEN [ok |-> TRUE, body |-> Sub(rawData, bodyStart, n.n)]
                 ELSE [ok |-> FALSE, body |-> <<>>]
        For(cl) ==
            IF cl.has THEN OfLength(stoul(cl.val))
            ELSE [ok |-> TRUE, body |-> <<>>]
    IN IF bodyStart <= Len(rawData)
       THEN For(getHeader(headers, <<"Content-Length">>))
       ELSE [ok |-> TRUE, body |-> <<>>]

\* HttpRequest::parse: [ok, req]
parse(rawData) ==
    LET WithBody(req, hs, b) ==
            [ok |-> b.ok, req |-> [req EXCEPT !.headers = hs, !.body = b.body]]
        WithHeaders(req, headersEnd, hs) ==
            WithBody(req, hs, parseBody(hs, rawData, headersEnd + 2))
        AfterStartLine(sl, headersStart, headersEnd) ==
            IF ~sl.ok THEN [ok |-> FALSE, req |-> sl.req]
            ELSE IF headersEnd = 0 THEN [ok |-> FALSE, req |-> sl.req]
            ELSE WithHeaders(sl.req, headersEnd,
                             parseHeaders(SubSeq(rawData, headersStart, headersEnd - 1)))
        From(startLineEnd) ==
            IF startLineEnd = 0 THEN [ok |-> FALSE, req |-> EmptyRequest]
            ELSE AfterStartLine(
                     parseStartLine(EmptyRequest, SubSeq(rawData, 1, startLineEnd - 1)),
                     startLineEnd + 1, FindCrlfCrlf(rawData, startLineEnd + 1))
    IN From(FindTok(rawData, "CRLF", 1))


\* ======================================================================
\* http::status, http::mime, http::encoding (lookup tables)
\* ======================================================================

Reason(code) ==
    CASE code = 200 -> "OK"
      [] code = 400 -> "Bad Request"
      [] code = 403 -> "Forbidden"
      [] code = 404 -> "Not Found"
      [] code = 415 -> "Unsupported Media Type"
      [] code = 500 -> "Internal Server Error"
      [] code = 501 -> "Not Implemented"

\* The number of characters of a token
TokLen(tok) ==
    CASE tok = "CRLF" -> 2
      [] tok = "OK" -> 2
      [] tok \in {"200", "400", "403", "404", "415", "500", "501"} -> 3
      [] tok = "Bad Request" -> 11
      [] tok = "Forbidden" -> 9
      [] tok = "Not Found" -> 9
      [] tok = "Unsupported Media Type" -> 22
      [] tok = "Internal Server Error" -> 21
      [] tok = "Not Implemented" -> 15
      [] tok = "Received form data:" -> 19
      [] tok = "POST Successful!" -> 16
      [] OTHER -> 1

RECURSIVE TextLen(_)
TextLen(text) == IF text = <<>> THEN 0 ELSE TokLen(Head(text)) + TextLen(Tail(text))

\* http::mime::fromExtension on the characters from the last '.' on
RECURSIVE LastDot(_, _)
LastDot(s, i) ==
    IF i = 0 THEN 0 ELSE IF s[i] = "." THEN i ELSE LastDot(s, i - 1)

mimeFromExtension(ext) ==
    IF ext = <<".", "h">> THEN "text/html" ELSE "INVALID"

\* http::encoding::decode: %HH gives the byte HH, other bytes pass through
RECURSIVE decode(_)
decode(s) ==
    LET HexDigits == {"0", "1", "2", "3", "4", "5", "6", "7", "8", "9"}
        HexByte(h1, h2) == IF h1 = "2" /\ h2 = "0" THEN "SP" ELSE "?"
    IN IF s = <<>> THEN <<>>
       ELSE IF Head(s) = "%" /\ Len(s) >= 3 /\ s[2] \in HexDigits /\ s[3] \in HexDigits
            THEN <<HexByte(s[2], s[3])>> \o decode(SubSeq(s, 4, Len(s)))
       ELSE <<Head(s)>> \o decode(Tail(s))

\* ======================================================================
\* HttpResponse and ResponseComposer
\* ======================================================================

EmptyBody == [text |-> <<>>, len |-> 0]
TextBody(text) == [text |-> text, len |-> TextLen(text)]
FileBody(path, size) == [text |-> <<"contents of">> \o path, len |-> size]

\* HttpResponse::HttpResponse()
NewResponse == [status |-> 200, headers |-> NoHeaders, body |-> EmptyBody, isStatic |-> FALSE]

\* composeResponseString: the status line and the headers, as sent
composeResponseString(response) ==
    [part |-> "head", version |-> "HTTP/1.1", status |-> response.status,
     reason |-> Reason(response.status), headers |-> response.headers]

\* composeErrorMessage(response, code): fills the response given
composeErrorMessage(response, code) ==
    LET WithBody(body) ==
            [response EXCEPT
                !.status = code,
                !.headers = setHeader(
                              setHeader(
                                setHeader(response.headers, <<"Content-Type">>, <<"text/html">>),
                                <<"Content-Length">>, <<ToString(body.len)>>),
                              <<"Connection">>, <<"close">>),
                !.body = body]
    IN WithBody(TextBody(<<ToString(code), "SP", Reason(code)>>))

\* ResponseResult: a response or a status code
Success(response) == [isSuccess |-> TRUE, response |-> response, error |-> 0]
Failure(code)     == [isSuccess |-> FALSE, response |-> NewResponse, error |-> code]

\* ======================================================================
\* Response builders
\* ======================================================================

\* a threshold one byte lower: files of exactly 128 KiB go through sendfile
MaxFileSizeInclusive == 128 * 1024 - 1

\* ResponseBuilder::MAX_FILE_SIZE = 128 * 1024
MAX_FILE_SIZE == 131072

\* The characters of a request target token
TargetChars(tok) ==
    CASE tok = "/"        -> <<"/">>
      [] tok = "/i.h"     -> JoinSegs(<<Name.idx>>)
      [] tok = "/g.h"     -> JoinSegs(<<Name.big>>)
      [] tok = "/m.h"     -> JoinSegs(<<Name.edge>>)
      [] tok = "/b.z"     -> JoinSegs(<<Name.bin>>)
      [] tok = "/d"       -> JoinSegs(<<Name.dir>>)
      [] tok = "/../e/p"  -> JoinSegs(<<<<".", ".">>, <<".", ".">>, Name.etc, Name.pwd>>)
      [] tok = "/submit"  -> <<"/", "s", "u", "b", "m", "i", "t">>
      [] OTHER            -> <<"/", "n", "o">>

RECURSIVE UriChars(_)
UriChars(toks) ==
    IF toks = <<>> THEN <<>> ELSE TargetChars(Head(toks)) \o UriChars(Tail(toks))

\* GetResponseBuilder::buildResponse; readable: FileResolver::readFile succeeds
GetBuildResponse(request, readable) ==
    LET \* the characters of the path from its last '.' on
        Extension(validPath, dotPos) ==
            IF dotPos # 0 THEN SubSeq(validPath, dotPos, Len(validPath)) ELSE <<>>
        \* the payload; base carries the Content-Type header
        Payload(base, validPath, fileSize) ==
            IF fileSize > MAX_FILE_SIZE THEN
                 Success([base EXCEPT
                     !.headers = setHeader(
                                   setHeader(base.headers, <<"Content-Length">>,
                                             <<ToString(fileSize)>>),
                                   <<"File-Path">>, validPath),
                     !.body = EmptyBody,
                     !.isStatic = TRUE])
            ELSE IF ~readable THEN Failure(403)
            ELSE Success([base EXCEPT
                     !.headers = setHeader(base.headers, <<"Content-Length">>,
                                           <<ToString(fileSize)>>),
                     !.body = FileBody(validPath, fileSize),
                     !.isStatic = FALSE])
        File(validPath, segs, mime) ==
            IF ~StatOk(segs) \/ ~IsRegular(segs) THEN Failure(404)
            ELSE IF mime = "INVALID" THEN Failure(415)
            ELSE Payload([NewResponse EXCEPT
                             !.headers = setHeader(NoHeaders, <<"Content-Type">>, <<mime>>)],
                         validPath, FileSize(segs))
        Resolved(resolved) ==
            IF resolved.kind = "status" THEN Failure(resolved.code)
            ELSE File(resolved.path, realpath(resolved.path).segs,
                      mimeFromExtension(Extension(resolved.path,
                                                  LastDot(resolved.path, Len(resolved.path)))))
    IN Resolved(sanitizePath(UriChars(request.uri)))

\* The form pairs of a POST body: split on '&', each pair on its first '='
RECURSIVE FormPairs(_, _)
FormPairs(body, pos) ==
    LET Pair(keyValue, eq) ==
            << IF eq = 0 THEN <<>> ELSE decode(SubSeq(keyValue, 1, eq - 1)),
               IF eq = 0 \/ eq = Len(keyValue) THEN <<>>
               ELSE decode(SubSeq(keyValue, eq + 1, Len(keyValue))) >>
        PairOf(keyValue) == Pair(keyValue, FindTok(keyValue, "=", 1))
        To(end) == <<PairOf(SubSeq(body, pos, end - 1))>> \o FormPairs(body, end + 1)
        PairEnd(found) == To(IF found = 0 THEN Len(body) + 1 ELSE found)
    IN IF pos > Len(body) THEN <<>>
       ELSE PairEnd(FindTok(body, "&", pos))

\* formData[key] = value over the pairs, in order: the last value of a key stays
RECURSIVE FormData(_, _)
FormData(pairs, acc) ==
    LET Put(pair, i) == IF i = 0 THEN Append(acc, pair) ELSE [acc EXCEPT ![i] = pair]
    IN IF pairs = <<>> THEN acc
       ELSE FormData(Tail(pairs), Put(Head(pairs), HeaderIndex(acc, Head(pairs)[1], 1)))

RECURSIVE FormLines(_)
FormLines(data) ==
    IF data = <<>> THEN <<>>
    ELSE Head(data)[1] \o <<":", "SP">> \o Head(data)[2] \o <<"CRLF">> \o FormLines(Tail(data))

\* PostResponseBuilder::buildResponse
PostBuildResponse(request) ==
    LET \* the media type of a Content-Type value: the part before ';'
        MediaType(raw, semicolon) ==
            IF semicolon # 0 THEN SubSeq(raw, 1, semicolon - 1) ELSE raw
        ContentTypeOf(ct) ==
            MediaType(IF ct.has THEN ct.val ELSE <<>>,
                      FindTok(IF ct.has THEN ct.val ELSE <<>>, ";", 1))
        Posted(body) ==
            Success([NewResponse EXCEPT
                !.headers = setHeader(
                              setHeader(
                                setHeader(NoHeaders, <<"Content-Type">>, <<"text/html">>),
                                <<"Content-Length">>, <<ToString(body.len)>>),
                              <<"Connection">>, <<"close">>),
                !.body = body])
    IN IF ContentTypeOf(getHeader(request.headers, <<"Content-Type">>))
             # <<"application/x-www-form-urlencoded">>
       THEN Failure(415)
       ELSE IF request.uri # <<"/submit">> THEN Failure(404)
       ELSE Posted(TextBody(<<"Received form data:", "CRLF">>
                            \o FormLines(FormData(FormPairs(request.body, 1), <<>>))
                            \o <<"POST Successful!">>))

\* ResponseBuilderFactory::createBuilder with the builders HttpServer registers
RegisteredMethods == {"GET", "POST"}


\* ======================================================================
\* Socket::send / Socket::sendfile, as ConnectionHandler uses them
\* ======================================================================

\* outs: the results the OS gives to the coming send calls, "ok" or "fail"
\* (a fatal errno), in order; when outs is used up the OS accepts everything.
\* A call with len = 0 makes no system call and returns 0; a call whose first
\* ::send fails returns a negative value.
SocketSend(len, outs) ==
    IF len = 0 THEN [ret |-> 0, outs |-> outs]
    ELSE IF outs = <<>> THEN [ret |-> len, outs |-> outs]
    ELSE IF Head(outs) = "ok" THEN [ret |-> len, outs |-> Tail(outs)]
    ELSE [ret |-> -1, outs |-> Tail(outs)]

\* The payload of a response, as it appears on the wire
BodyPart(response) ==
    [part |-> IF response.isStatic THEN "file" ELSE "body", version |-> "",
     status |-> response.status, reason |-> "", headers |-> response.headers]

\* ======================================================================
\* ConnectionHandler::sendResponse and sendErrorResponse
\* ======================================================================

RECURSIVE sendResponse(_, _, _)
RECURSIVE sendErrorResponse(_, _, _, _)

\* [wire, outs]: what reached the wire and the OS results left
sendResponse(v, response, outs) ==
    LET \* the byte count handed to send / sendfile
        PayloadLen ==
            IF response.isStatic
            THEN stoul(getHeader(response.headers, <<"Content-Length">>).val).n
            ELSE response.body.len
        \* the status line and headers, followed by what e put on the wire
        After(e) ==
            [wire |-> <<composeResponseString(response)>> \o e.wire, outs |-> e.outs]
        \* once the payload send has returned b
        AfterPayload(b) ==
            IF b.ret < 0 THEN After(sendErrorResponse(v, response, 500, b.outs))
            ELSE [wire |-> <<composeResponseString(response)>> \o
                           (IF b.ret > 0 THEN <<BodyPart(response)>> ELSE <<>>),
                  outs |-> b.outs]
        \* once the send of the status line and headers has returned h
        AfterHead(h) ==
            IF h.ret < 0 THEN [wire |-> <<>>, outs |-> h.outs]
            ELSE AfterPayload(SocketSend(PayloadLen, h.outs))
    IN AfterHead(SocketSend(1, outs))

\* variant 1 composes onto the response given and sends its body alone;
\* variant 2 composes a fresh response and sends it with sendResponse
sendErrorResponse(v, response, code, outs) ==
    LET Sent(r, b) ==
            [wire |-> IF b.ret > 0 THEN <<BodyPart(r)>> ELSE <<>>, outs |-> b.outs]
        SendBody(r) == Sent(r, SocketSend(r.body.len, outs))
    IN IF v = 1 THEN SendBody(composeErrorMessage(response, code))
       ELSE sendResponse(v, composeErrorMessage(NewResponse, code), outs)

\* ======================================================================
\* ConnectionHandler::parseRequest and handleRequest
\* ======================================================================

\* parseRequest: arrived is what recv returned before the loop ended, recvEnd
\* how the loop ended when arrived holds no "\r\n\r\n": "eagain" (would
\* block), "closed" (recv returned 0), "error" (Socket::recv threw).
\* [threw, req]
parseRequest(arrived, recvEnd) ==
    LET \* if(!request.parse(requestData)) throw std::runtime_error(...)
        Parsed(p) ==
            IF ~p.ok THEN [threw |-> "runtime_error", req |-> p.req]
            ELSE [threw |-> "none", req |-> p.req]
    IN IF FindCrlfCrlf(arrived, 1) = 0 /\ recvEnd = "error"
       THEN [threw |-> "system_error", req |-> EmptyRequest]
       ELSE IF FindCrlfCrlf(arrived, 1) = 0 /\ recvEnd = "closed"
       THEN [threw |-> "runtime_error", req |-> EmptyRequest]
       ELSE Parsed(parse(arrived))

\* The Connection header and the keepAlive flag: [response, keepAlive]
DetermineKeepAlive(request, response) ==
    LET For(c) ==
            IF c.has /\ c.val # <<"keep-alive">>
            THEN [response |-> [response EXCEPT
                                  !.headers = setHeader(@, <<"Connection">>, <<"close">>)],
                  keepAlive |-> FALSE]
            ELSE [response |-> [response EXCEPT
                                  !.headers = setHeader(@, <<"Connection">>, <<"keep-alive">>)],
                  keepAlive |-> TRUE]
    IN For(getHeader(request.headers, <<"Connection">>))

\* handleRequest: the exchange it makes
handleRequest(v, arrived, recvEnd, outs, readable) ==
    LET \* the catch blocks: an error response is sent and false returned
        Caught(pr, code) ==
            [arrived |-> arrived, threw |-> pr.threw, request |-> pr.req,
             response |-> composeErrorMessage(NewResponse, code),
             wire |-> sendErrorResponse(v, NewResponse, code, outs).wire,
             keepAlive |-> FALSE]
        \* factory->createBuilder(method) and builder->buildResponse(request)
        BuildFor(method, request) ==
            IF method \notin RegisteredMethods THEN Failure(501)
            ELSE IF method = "GET" THEN GetBuildResponse(request, readable)
            ELSE PostBuildResponse(request)
        \* result.isSuccess ? result.response : composeErrorMessage(result.error)
        ResponseOf(result) ==
            IF result.isSuccess THEN result.response
            ELSE composeErrorMessage(NewResponse, result.error)
        \* sendResponse(response); return keepAlive;
        Answered(request, d) ==
            [arrived |-> arrived, threw |-> "none", request |-> request,
             response |-> d.response, wire |-> sendResponse(v, d.response, outs).wire,
             keepAlive |-> d.keepAlive]
        Parsed(request) ==
            Answered(request,
                     DetermineKeepAlive(request,
                         ResponseOf(BuildFor(fromString(request.method), request))))
        Outcome(pr) ==
            IF pr.threw # "none"
            THEN Caught(pr, IF pr.threw = "system_error" THEN 400 ELSE 500)
            ELSE Parsed(pr.req)
    IN Outcome(parseRequest(arrived, recvEnd))


\* ======================================================================
\* ConnectionHandler::processRequests and waitForData
\* ======================================================================

KEEP_ALIVE_TIMEOUT      == 60000
MAX_KEEP_ALIVE_REQUESTS == 100
shortTimeoutMs          == 100
proactiveTimeoutMs      == 500

\* ---- the requests a client sends
HeaderLine(name, value) == <<name, ":", "SP", value, "CRLF">>
Raw(method, target, version, headerLines, body) ==
    <<method, "SP", target, "SP", version, "CRLF">> \o headerLines \o <<"CRLF">> \o body

Requests ==
    LET Host      == HeaderLine("Host", "x")
        ConnKA    == HeaderLine("Connection", "keep-alive")
        ConnClose == HeaderLine("Connection", "close")
        FormType  == HeaderLine("Content-Type", "application/x-www-form-urlencoded")
        JsonType  == HeaderLine("Content-Type", "application/json")
        Length3   == HeaderLine("Content-Length", "3")
    IN [Index      |-> Raw("GET", "/", "HTTP/1.1", Host, <<>>),
        IndexKA    |-> Raw("GET", "/i.h", "HTTP/1.1", ConnKA, <<>>),
        IndexClose |-> Raw("GET", "/i.h", "HTTP/1.1", ConnClose, <<>>),
        Missing    |-> Raw("GET", "/no", "HTTP/1.1", Host, <<>>),
        MissingKA  |-> Raw("GET", "/no", "HTTP/1.1", ConnKA, <<>>),
        Traversal  |-> Raw("GET", "/../e/p", "HTTP/1.1", Host, <<>>),
        Directory  |-> Raw("GET", "/d", "HTTP/1.1", Host, <<>>),
        UnknownExt |-> Raw("GET", "/b.z", "HTTP/1.1", Host, <<>>),
        Big        |-> Raw("GET", "/g.h", "HTTP/1.1", Host, <<>>),
        Edge       |-> Raw("GET", "/m.h", "HTTP/1.1", Host, <<>>),
        Put        |-> Raw("PUT", "/i.h", "HTTP/1.1", Host, <<>>),
        PutClose   |-> Raw("PUT", "/i.h", "HTTP/1.1", ConnClose, <<>>),
        Submit     |-> Raw("POST", "/submit", "HTTP/1.1", FormType \o Length3,
                           <<"a", "=", "1">>),
        SubmitJson |-> Raw("POST", "/submit", "HTTP/1.1", JsonType \o Length3,
                           <<"{", " ", "}">>),
        SubmitBare |-> Raw("POST", "/submit", "HTTP/1.1", FormType \o Length3,
                           <<"a", "&", "b">>),
        NoHeaders  |-> Raw("GET", "/", "HTTP/1.1", <<>>, <<>>),
        OldVersion |-> Raw("GET", "/", "HTTP/1.0", Host, <<>>),
        NoSpaces   |-> <<"GET/HTTP/1.1", "CRLF", "Host", ":", "SP", "x", "CRLF", "CRLF">>]

RawRequests == { Requests[k] : k \in DOMAIN Requests }

\* The results the OS gives to the send calls of one exchange
SendOutcomes == { <<>>, <<"fail">>, <<"ok", "fail">>, <<"ok", "fail", "fail">> }

\* The inputs of one handleRequest call
Inputs ==
    { [raw |-> r, k |-> Len(r), recvEnd |-> "eagain", outs |-> o, readable |-> TRUE] :
        r \in RawRequests, o \in SendOutcomes }
    \cup
    { [raw |-> r, k |-> k, recvEnd |-> e, outs |-> <<>>, readable |-> TRUE] :
        r \in RawRequests, k \in 0..3, e \in {"eagain", "closed", "error"} }
    \cup
    { [raw |-> r, k |-> Len(r) - 1, recvEnd |-> "eagain", outs |-> <<>>, readable |-> TRUE] :
        r \in RawRequests }
    \cup
    { [raw |-> r, k |-> Len(r), recvEnd |-> "eagain", outs |-> <<>>, readable |-> FALSE] :
        r \in {Requests.Index, Requests.IndexKA} }
    \cup
    { [raw |-> r, k |-> FindCrlfCrlf(r, 1) + 1, recvEnd |-> "eagain", outs |-> <<>>, readable |-> TRUE] :
        r \in {Requests.Submit, Requests.SubmitJson} }

NoExchange ==
    [raw |-> <<>>, recvEnd |-> "none", outs |-> <<>>, arrived |-> <<>>, threw |-> "none", request |-> EmptyRequest,
     response |-> NewResponse, wire |-> <<>>, keepAlive |-> FALSE]

\* ---- waitForData

\* while(HttpServer::isRunning() && totalElapsedMs < KEEP_ALIVE_TIMEOUT)
WaitLoopNoBudget(r, elapsed) == r

WaitLoop(r, elapsed) == r /\ elapsed < KEEP_ALIVE_TIMEOUT

\* ppoll timed out: no data in this slice
PollTimeout ==
    /\ hpc = "wait"
    /\ WaitLoop(running, totalElapsedMs)
    /\ totalElapsedMs' = totalElapsedMs + shortTimeoutMs
    /\ hpc' = IF variant = 1 /\ totalElapsedMs' >= proactiveTimeoutMs
              THEN "close" ELSE "wait"
    /\ UNCHANGED <<osVars, pathVars, poolVars, variant, running, requestCount, exch, sock>>

\* ppoll reported POLLIN: waitForData returns true
PollReady ==
    /\ hpc = "wait"
    /\ WaitLoop(running, totalElapsedMs)
    /\ hpc' = "handle"
    /\ totalElapsedMs' = 0
    /\ UNCHANGED <<osVars, pathVars, poolVars, variant, running, requestCount, exch, sock>>

\* ppoll failed: variant 1 throws out of processRequests, which nothing
\* catches; variant 2 returns false
PollError ==
    /\ hpc = "wait"
    /\ WaitLoop(running, totalElapsedMs)
    /\ hpc' = IF variant = 1 THEN "terminate" ELSE "close"
    /\ UNCHANGED <<osVars, pathVars, poolVars, variant, running, requestCount, totalElapsedMs, exch, sock>>

\* the loop condition fails: waitForData returns false
WaitExpired ==
    /\ hpc = "wait"
    /\ ~WaitLoop(running, totalElapsedMs)
    /\ hpc' = "close"
    /\ UNCHANGED <<osVars, pathVars, poolVars, variant, running, requestCount, totalElapsedMs, exch, sock>>

\* The exchanges handleRequest can make in each variant, over all inputs
Exchanges ==
    [v \in {1, 2} |->
        { [raw |-> in.raw, recvEnd |-> in.recvEnd, outs |-> in.outs] @@
          handleRequest(v, SubSeq(in.raw, 1, in.k), in.recvEnd, in.outs, in.readable) :
            in \in Inputs }]

\* ---- processRequests

\* bool keepAlive = handleRequest(); requestCount++;
HandleRequest ==
    /\ hpc = "handle"
    /\ exch' \in Exchanges[variant]
    /\ requestCount' = requestCount + 1
    /\ hpc' = "continue"
    /\ UNCHANGED <<osVars, pathVars, poolVars, variant, running, totalElapsedMs, sock>>

\* A handler without the cap: it is never reached
CapReachedNever(count) == FALSE

\* if(requestCount >= MAX_KEEP_ALIVE_REQUESTS) break;
CapReached(count) == count >= MAX_KEEP_ALIVE_REQUESTS

\* A handler without the keep-alive test: the connection is never closed for it
MustCloseNever(keepAlive) == FALSE

\* if(!keepAlive) break;
MustClose(keepAlive) == ~keepAlive

Continue ==
    /\ hpc = "continue"
    /\ hpc' = IF CapReached(requestCount) THEN "close"
              ELSE IF MustClose(exch.keepAlive) THEN "close"
              ELSE "wait"
    /\ exch' = NoExchange
    /\ UNCHANGED <<osVars, pathVars, poolVars, variant, running, requestCount, totalElapsedMs, sock>>

\* A destructor without the shutdown call
NoShutdown(s) == s

\* shutdown(client_socket->get(), SHUT_RDWR): both directions of an open
\* socket are shut down
ShutdownRdwr(s) == IF s = "open" THEN "shutdown" ELSE s

\* processRequests has returned and the handler goes out of scope:
\* ~ConnectionHandler, if(client_socket) shutdown(..., SHUT_RDWR)
HandlerShutdown ==
    /\ hpc = "close"
    /\ hpc' = "shut"
    /\ sock' = ShutdownRdwr(sock)
    /\ UNCHANGED <<osVars, pathVars, poolVars, variant, running, requestCount, totalElapsedMs, exch>>

\* ~ConnectionHandler: client_socket.reset() destroys the Socket, whose
\* destructor closes the descriptor
CloseConnection ==
    /\ hpc = "shut"
    /\ hpc' = "done"
    /\ sock' = "closed"
    /\ UNCHANGED <<osVars, pathVars, poolVars, variant, running, requestCount, totalElapsedMs, exch>>

\* HttpServer::stop: running = false
ServerStop ==
    /\ running
    /\ hpc \notin {"done", "terminate"}
    /\ running' = FALSE
    /\ UNCHANGED <<osVars, pathVars, poolVars, variant, hpc, requestCount, totalElapsedMs, exch, sock>>

\* ======================================================================
\* ThreadPool, the acceptor and the signal-driven stop
\* ======================================================================

NumWorkers == 2     \* the largest numThreads the pool is built with
MaxSockets == 3     \* the number of connections accept returns

\* Thread ids: the acceptor (main) thread, then the workers
AcceptorThread == 0
AllWorkers == 1..NumWorkers
Threads == {AcceptorThread} \cup AllWorkers

\* Sockets are numbered in the order accept returns them; a null unique_ptr
NoSocket == 0
Sockets == 1..MaxSockets

Range(seq) == { seq[i] : i \in 1..Len(seq) }

\* std::mutex: nobody holds it, or a thread holds it, either in its own code
\* ("thread") or in the signal handler that interrupted it ("signal")
Free == {}
Held(t, context) == { <<t, context>> }

\* A thread executes its own code: it is not interrupted by the signal
\* handler and the process has not been terminated
Runs(t) == ~crashed /\ t \notin sig

\* A LIFO dequeue: the newest task is taken
TakeBack(q) == [taken |-> q[Len(q)], rest |-> SubSeq(q, 1, Len(q) - 1)]

\* A dequeue without pop: the task is not removed from the queue
TakeFrontNoPop(q) == [taken |-> Head(q), rest |-> q]

\* client_socket = std::move(task_queue.front()); task_queue.pop();
TakeFront(q) == [taken |-> Head(q), rest |-> Tail(q)]

\* An enqueue without notify_one: no thread is woken
NotifyNobody(waiting) == { {} }

\* cv.notify_one(): the sets of threads it may wake, one of the threads
\* blocked in cv.wait when there is any
NotifyOne(waiting) == IF waiting = {} THEN { {} } ELSE { {w} : w \in waiting }

\* A pool that takes itself for active whatever workers holds
IsActiveAlways == TRUE

\* bool isActive() const { return !workers.empty(); }
isActive == workers # {}

\* cv.wait's predicate: stop || !task_queue.empty()
WaitPredicate == stop \/ task_queue # <<>>

\* ---- the acceptor thread: HttpServer::start, acceptConnections, enqueue

\* while(running): accept returns a descriptor
Accept ==
    /\ apc = "accept"
    /\ Runs(AcceptorThread)
    /\ running
    /\ accepted < MaxSockets
    /\ accepted' = accepted + 1
    /\ a_sock' = accepted + 1
    /\ apc' = "accepted"
    /\ UNCHANGED <<osVars, pathVars, handlerVars, lifeVars, running, numThreads, workers, task_queue, stop, queue_mtx, cvWaiting,
                   wpc, w_sock, handler, sig, spc, joinIdx, shutdownFlag, crashed,
                   closed, enqOrder, deqOrder, startOrder>>

\* while(running) fails: acceptConnections and the loop of start are left
AcceptorLeaves ==
    /\ apc = "accept"
    /\ Runs(AcceptorThread)
    /\ ~running
    /\ apc' = "returned"
    /\ UNCHANGED <<osVars, pathVars, handlerVars, lifeVars, running, numThreads, workers, task_queue, stop, queue_mtx, cvWaiting,
                   wpc, w_sock, handler, a_sock, accepted, sig, spc, joinIdx,
                   shutdownFlag, crashed, closed, enqOrder, deqOrder, startOrder>>

\* if(!running) break; otherwise the descriptor is wrapped in a Socket and
\* enqueue is called with it.  On the break the descriptor is owned by nothing.
AfterAccept ==
    /\ apc = "accepted"
    /\ Runs(AcceptorThread)
    /\ IF ~running
       THEN /\ a_sock' = NoSocket
            /\ apc' = "returned"
       ELSE /\ a_sock' = a_sock
            /\ apc' = "enqueue"
    /\ UNCHANGED <<osVars, pathVars, handlerVars, lifeVars, running, numThreads, workers, task_queue, stop, queue_mtx, cvWaiting,
                   wpc, w_sock, handler, accepted, sig, spc, joinIdx, shutdownFlag,
                   crashed, closed, enqOrder, deqOrder, startOrder>>

\* A caller of enqueue that passes an empty std::unique_ptr<Socket>, which
\* the parameter's type admits; acceptConnections never does, its socket
\* comes from make_unique
NullEnqueue ==
    /\ apc = "accept"
    /\ Runs(AcceptorThread)
    /\ a_sock = NoSocket
    /\ apc' = "enqueue"
    /\ UNCHANGED <<osVars, pathVars, handlerVars, lifeVars, running, numThreads, workers, task_queue, stop, queue_mtx, cvWaiting,
                   wpc, w_sock, handler, a_sock, accepted, sig, spc, joinIdx, shutdownFlag,
                   crashed, closed, enqOrder, deqOrder, startOrder>>

\* An enqueue without the test: the empty pointer is taken for a socket
IsNullNever(client_socket) == FALSE

\* if(!client_socket) return;
IsNull(client_socket) == client_socket = NoSocket

\* enqueue, up to the lock: a null socket is refused; with an inactive pool
\* the handler is constructed and run on the calling thread
EnqueueEntry ==
    /\ apc = "enqueue"
    /\ Runs(AcceptorThread)
    /\ IF IsNull(a_sock)
       THEN /\ apc' = "accept"
            /\ UNCHANGED <<handler, a_sock, startOrder>>
       ELSE IF ~isActive
       THEN /\ handler' = [handler EXCEPT ![AcceptorThread] = a_sock]
            /\ a_sock' = NoSocket
            /\ startOrder' = Append(startOrder, a_sock)
            /\ apc' = "inline"
       ELSE /\ apc' = "enq_lock"
            /\ UNCHANGED <<handler, a_sock, startOrder>>
    /\ refused' = (refused \/ IsNull(a_sock))
    /\ UNCHANGED <<osVars, pathVars, handlerVars, joined, stopBodies, intr, running, numThreads, workers, task_queue, stop, queue_mtx, cvWaiting,
                   wpc, w_sock, accepted, sig, spc, joinIdx, shutdownFlag, crashed,
                   closed, enqOrder, deqOrder>>

\* handler.processRequests() returns on the calling thread; the handler and
\* its socket are destroyed
InlineReturn ==
    /\ apc = "inline"
    /\ Runs(AcceptorThread)
    /\ closed' = closed \cup {handler[AcceptorThread]}
    /\ handler' = [handler EXCEPT ![AcceptorThread] = NoSocket]
    /\ apc' = "accept"
    /\ UNCHANGED <<osVars, pathVars, handlerVars, lifeVars, running, numThreads, workers, task_queue, stop, queue_mtx, cvWaiting,
                   wpc, w_sock, a_sock, accepted, sig, spc, joinIdx, shutdownFlag,
                   crashed, enqOrder, deqOrder, startOrder>>

\* ppoll fails with EINTR when the signal handler ran during it, and
\* waitForSocketEvent throws std::runtime_error: nothing catches it before
\* main, so the handler and its socket are destroyed by the unwinding, which
\* leaves enqueue, acceptConnections and start
InlineThrow ==
    /\ apc = "inline"
    /\ Runs(AcceptorThread)
    /\ intr
    /\ closed' = closed \cup {handler[AcceptorThread]}
    /\ handler' = [handler EXCEPT ![AcceptorThread] = NoSocket]
    /\ apc' = "returned"
    /\ UNCHANGED <<osVars, pathVars, handlerVars, lifeVars, running, numThreads, workers, task_queue, stop, queue_mtx, cvWaiting,
                   wpc, w_sock, a_sock, accepted, sig, spc, joinIdx, shutdownFlag,
                   crashed, enqOrder, deqOrder, startOrder>>

\* std::unique_lock<std::mutex> lock(queue_mtx);
EnqueueLock ==
    /\ apc = "enq_lock"
    /\ Runs(AcceptorThread)
    /\ queue_mtx = Free
    /\ queue_mtx' = Held(AcceptorThread, "thread")
    /\ apc' = "enq_locked"
    /\ UNCHANGED <<osVars, pathVars, handlerVars, lifeVars, running, numThreads, workers, task_queue, stop, cvWaiting, wpc,
                   w_sock, handler, a_sock, accepted, sig, spc, joinIdx, shutdownFlag,
                   crashed, closed, enqOrder, deqOrder, startOrder>>

\* if(stop) return; task_queue.push(std::move(client_socket)); and the unlock.
\* On the return the parameter is destroyed, and the socket with it.
EnqueuePush ==
    /\ apc = "enq_locked"
    /\ Runs(AcceptorThread)
    /\ IF stop
       THEN /\ closed' = closed \cup {a_sock}
            /\ apc' = "accept"
            /\ UNCHANGED <<task_queue, enqOrder>>
       ELSE /\ task_queue' = Append(task_queue, a_sock)
            /\ enqOrder' = Append(enqOrder, a_sock)
            /\ apc' = "notify"
            /\ UNCHANGED closed
    /\ a_sock' = NoSocket
    /\ queue_mtx' = Free
    /\ UNCHANGED <<osVars, pathVars, handlerVars, lifeVars, running, numThreads, workers, stop, cvWaiting, wpc, w_sock, handler,
                   accepted, sig, spc, joinIdx, shutdownFlag, crashed, deqOrder,
                   startOrder>>

\* cv.notify_one(); enqueue returns
EnqueueNotify ==
    /\ apc = "notify"
    /\ Runs(AcceptorThread)
    /\ \E woken \in NotifyOne(cvWaiting) :
         /\ cvWaiting' = cvWaiting \ woken
         /\ wpc' = [w \in AllWorkers |-> IF w \in woken THEN "lock" ELSE wpc[w]]
    /\ apc' = "accept"
    /\ UNCHANGED <<osVars, pathVars, handlerVars, lifeVars, running, numThreads, workers, task_queue, stop, queue_mtx, w_sock,
                   handler, a_sock, accepted, sig, spc, joinIdx, shutdownFlag, crashed,
                   closed, enqOrder, deqOrder, startOrder>>

\* ---- ThreadPool::workerThread

\* The mutex is taken: at the top of the loop, or inside cv.wait after a wake-up
WorkerLock(w) ==
    /\ wpc[w] = "lock"
    /\ Runs(w)
    /\ queue_mtx = Free
    /\ queue_mtx' = Held(w, "thread")
    /\ wpc' = [wpc EXCEPT ![w] = "locked"]
    /\ UNCHANGED <<osVars, pathVars, handlerVars, lifeVars, running, numThreads, workers, task_queue, stop, cvWaiting, w_sock,
                   handler, apc, a_sock, accepted, sig, spc, joinIdx, shutdownFlag,
                   crashed, closed, enqOrder, deqOrder, startOrder>>

\* cv.wait with a false predicate: the mutex is released and the thread blocks
WorkerWait(w) ==
    /\ wpc[w] = "locked"
    /\ Runs(w)
    /\ ~WaitPredicate
    /\ cvWaiting' = cvWaiting \cup {w}
    /\ queue_mtx' = Free
    /\ wpc' = [wpc EXCEPT ![w] = "waiting"]
    /\ UNCHANGED <<osVars, pathVars, handlerVars, lifeVars, running, numThreads, workers, task_queue, stop, w_sock, handler, apc,
                   a_sock, accepted, sig, spc, joinIdx, shutdownFlag, crashed, closed,
                   enqOrder, deqOrder, startOrder>>

\* A spurious wake-up of cv.wait
WorkerSpuriousWake(w) ==
    /\ wpc[w] = "waiting"
    /\ Runs(w)
    /\ cvWaiting' = cvWaiting \ {w}
    /\ wpc' = [wpc EXCEPT ![w] = "lock"]
    /\ UNCHANGED <<osVars, pathVars, handlerVars, lifeVars, running, numThreads, workers, task_queue, stop, queue_mtx, w_sock,
                   handler, apc, a_sock, accepted, sig, spc, joinIdx, shutdownFlag,
                   crashed, closed, enqOrder, deqOrder, startOrder>>

\* if(stop && task_queue.empty()) return;
WorkerExit(w) ==
    /\ wpc[w] = "locked"
    /\ Runs(w)
    /\ stop /\ task_queue = <<>>
    /\ queue_mtx' = Free
    /\ wpc' = [wpc EXCEPT ![w] = "exited"]
    /\ UNCHANGED <<osVars, pathVars, handlerVars, lifeVars, running, numThreads, workers, task_queue, stop, cvWaiting, w_sock,
                   handler, apc, a_sock, accepted, sig, spc, joinIdx, shutdownFlag,
                   crashed, closed, enqOrder, deqOrder, startOrder>>

\* The next task is taken and the mutex released
WorkerDequeue(w) ==
    /\ wpc[w] = "locked"
    /\ Runs(w)
    /\ task_queue # <<>>
    /\ LET t == TakeFront(task_queue) IN
         /\ w_sock' = [w_sock EXCEPT ![w] = t.taken]
         /\ task_queue' = t.rest
         /\ deqOrder' = Append(deqOrder, t.taken)
    /\ queue_mtx' = Free
    /\ wpc' = [wpc EXCEPT ![w] = "start"]
    /\ UNCHANGED <<osVars, pathVars, handlerVars, lifeVars, running, numThreads, workers, stop, cvWaiting, handler, apc, a_sock,
                   accepted, sig, spc, joinIdx, shutdownFlag, crashed, closed, enqOrder,
                   startOrder>>

\* ConnectionHandler handler(std::move(client_socket), factory, composer);
WorkerStart(w) ==
    /\ wpc[w] = "start"
    /\ Runs(w)
    /\ handler' = [handler EXCEPT ![w] = w_sock[w]]
    /\ w_sock' = [w_sock EXCEPT ![w] = NoSocket]
    /\ startOrder' = Append(startOrder, w_sock[w])
    /\ wpc' = [wpc EXCEPT ![w] = "handling"]
    /\ UNCHANGED <<osVars, pathVars, handlerVars, lifeVars, running, numThreads, workers, task_queue, stop, queue_mtx, cvWaiting,
                   apc, a_sock, accepted, sig, spc, joinIdx, shutdownFlag, crashed,
                   closed, enqOrder, deqOrder>>

\* handler.processRequests() returns; the handler and its socket are destroyed
\* at the end of the block
WorkerReturn(w) ==
    /\ wpc[w] = "handling"
    /\ Runs(w)
    /\ closed' = closed \cup {handler[w]}
    /\ handler' = [handler EXCEPT ![w] = NoSocket]
    /\ wpc' = [wpc EXCEPT ![w] = "lock"]
    /\ UNCHANGED <<osVars, pathVars, handlerVars, lifeVars, running, numThreads, workers, task_queue, stop, queue_mtx, cvWaiting,
                   w_sock, apc, a_sock, accepted, sig, spc, joinIdx, shutdownFlag,
                   crashed, enqOrder, deqOrder, startOrder>>

\* ---- HttpServer::signalHandler, HttpServer::stop, ThreadPool::shutdown

\* The calls of ThreadPool::shutdown: from HttpServer::stop in the signal
\* handler, and from ~ThreadPool when start resets threadPool after its loop
Callers == {"signal", "dtor"}

\* The thread a call of shutdown executes on, as a set
CallerThread(c) == IF c = "signal" THEN sig ELSE {AcceptorThread}

\* The call executes: the process lives, and the destructor's thread is not
\* interrupted by the signal handler
CallerRuns(c) == ~crashed /\ (c = "dtor" => AcceptorThread \notin sig)

\* A thread that can take a signal: the main thread until the process exits,
\* a worker until it exits
Alive(t) ==
    IF t = AcceptorThread THEN apc # "exit"
    ELSE wpc[t] \notin {"none", "exited"}

\* SIGINT or SIGTERM is delivered to thread t, which enters stop through
\* call_once
Signal(t) ==
    /\ ~crashed
    /\ sig = {}
    /\ ~shutdownFlag
    /\ Alive(t)
    /\ sig' = {t}
    /\ shutdownFlag' = TRUE
    /\ stopBodies' = stopBodies + 1
    /\ intr' = (t = AcceptorThread /\ apc = "inline")
    /\ spc' = [spc EXCEPT !["signal"] = "stop"]
    /\ UNCHANGED <<osVars, pathVars, handlerVars, running, numThreads, workers, task_queue, stop, queue_mtx, cvWaiting,
                   wpc, w_sock, handler, apc, a_sock, accepted, joinIdx, crashed,
                   closed, enqOrder, deqOrder, startOrder, joined, refused>>

\* epollManager->wakeup(); running = false;
StopRunning ==
    /\ ~crashed
    /\ spc["signal"] = "stop"
    /\ running' = FALSE
    /\ spc' = [spc EXCEPT !["signal"] = "sd_lock"]
    /\ UNCHANGED <<osVars, pathVars, handlerVars, lifeVars, numThreads, workers, task_queue, stop, queue_mtx, cvWaiting, wpc,
                   w_sock, handler, apc, a_sock, accepted, sig, joinIdx, shutdownFlag,
                   crashed, closed, enqOrder, deqOrder, startOrder>>

\* shutdown: std::unique_lock<std::mutex> lock(queue_mtx).  When the thread
\* the signal handler interrupted holds the mutex, the lock is never granted.
ShutdownLock(c) ==
    /\ CallerRuns(c)
    /\ spc[c] = "sd_lock"
    /\ queue_mtx = Free
    /\ queue_mtx' = { <<t, IF c = "signal" THEN "signal" ELSE "thread">> : t \in CallerThread(c) }
    /\ spc' = [spc EXCEPT ![c] = "sd_locked"]
    /\ UNCHANGED <<osVars, pathVars, handlerVars, lifeVars, running, numThreads, workers, task_queue, stop, cvWaiting, wpc,
                   w_sock, handler, apc, a_sock, accepted, sig, joinIdx, shutdownFlag,
                   crashed, closed, enqOrder, deqOrder, startOrder>>

\* A shutdown without the test of stop: every call goes on to join
AlreadyStoppedNever(flag) == FALSE

\* if(stop) return; // Prevent double shutdown
AlreadyStopped(flag) == flag

\* if(stop) return; stop = true; and the unlock
ShutdownSetStop(c) ==
    /\ CallerRuns(c)
    /\ spc[c] = "sd_locked"
    /\ IF AlreadyStopped(stop)
       THEN /\ spc' = [spc EXCEPT ![c] = "done"]
            /\ sig' = IF c = "signal" THEN {} ELSE sig
            /\ UNCHANGED stop
       ELSE /\ stop' = TRUE
            /\ spc' = [spc EXCEPT ![c] = "notify_all"]
            /\ UNCHANGED sig
    /\ queue_mtx' = Free
    /\ UNCHANGED <<osVars, pathVars, handlerVars, lifeVars, running, numThreads, workers, task_queue, cvWaiting, wpc, w_sock,
                   handler, apc, a_sock, accepted, joinIdx, shutdownFlag, crashed,
                   closed, enqOrder, deqOrder, startOrder>>

\* cv.notify_all();
ShutdownNotifyAll(c) ==
    /\ CallerRuns(c)
    /\ spc[c] = "notify_all"
    /\ cvWaiting' = {}
    /\ wpc' = [w \in AllWorkers |-> IF w \in cvWaiting THEN "lock" ELSE wpc[w]]
    /\ joinIdx' = [joinIdx EXCEPT ![c] = 1]
    /\ spc' = [spc EXCEPT ![c] = "join"]
    /\ UNCHANGED <<osVars, pathVars, handlerVars, lifeVars, running, numThreads, workers, task_queue, stop, queue_mtx, w_sock,
                   handler, apc, a_sock, accepted, sig, shutdownFlag, crashed, closed,
                   enqOrder, deqOrder, startOrder>>

\* if(worker.joinable()) worker.join(); for the next worker: join returns
\* once the worker has exited, and a thread already joined is passed over
ShutdownJoin(c) ==
    /\ CallerRuns(c)
    /\ spc[c] = "join"
    /\ joinIdx[c] \in workers
    /\ joinIdx[c] \notin CallerThread(c)
    /\ IF joinIdx[c] \in Range(joined)
       THEN UNCHANGED joined
       ELSE /\ wpc[joinIdx[c]] = "exited"
            /\ joined' = Append(joined, joinIdx[c])
    /\ joinIdx' = [joinIdx EXCEPT ![c] = @ + 1]
    /\ UNCHANGED <<osVars, pathVars, handlerVars, running, numThreads, workers, task_queue, stop, queue_mtx, cvWaiting,
                   wpc, w_sock, handler, apc, a_sock, accepted, sig, spc, shutdownFlag,
                   crashed, closed, enqOrder, deqOrder, startOrder, stopBodies, intr, refused>>

\* worker.join() on the calling thread itself: join throws std::system_error
\* out of the signal handler, and nothing on the worker's stack catches it
ShutdownJoinSelf(c) ==
    /\ CallerRuns(c)
    /\ spc[c] = "join"
    /\ joinIdx[c] \in workers
    /\ joinIdx[c] \in CallerThread(c)
    /\ crashed' = TRUE
    /\ UNCHANGED <<osVars, pathVars, handlerVars, lifeVars, running, numThreads, workers, task_queue, stop, queue_mtx, cvWaiting,
                   wpc, w_sock, handler, apc, a_sock, accepted, sig, spc, joinIdx,
                   shutdownFlag, closed, enqOrder, deqOrder, startOrder>>

\* workers.clear(); shutdown returns, and with it stop and the signal handler
ShutdownClear(c) ==
    /\ CallerRuns(c)
    /\ spc[c] = "join"
    /\ joinIdx[c] \notin workers
    /\ workers' = {}
    /\ spc' = [spc EXCEPT ![c] = "done"]
    /\ sig' = IF c = "signal" THEN {} ELSE sig
    /\ UNCHANGED <<osVars, pathVars, handlerVars, lifeVars, running, numThreads, task_queue, stop, queue_mtx, cvWaiting, wpc,
                   w_sock, handler, apc, a_sock, accepted, joinIdx, shutdownFlag,
                   crashed, closed, enqOrder, deqOrder, startOrder>>

\* ---- the end of HttpServer::start and of main

\* factory.reset(); composer.reset(); resolver.reset(); epollManager.reset();
\* after the loop of start: the server's members are null from here on
ReleaseDependencies ==
    /\ apc = "returned"
    /\ Runs(AcceptorThread)
    /\ apc' = "released"
    /\ UNCHANGED <<osVars, pathVars, handlerVars, lifeVars, running, numThreads, workers, task_queue, stop, queue_mtx, cvWaiting,
                   wpc, w_sock, handler, a_sock, accepted, sig, spc, joinIdx,
                   shutdownFlag, crashed, closed, enqOrder, deqOrder, startOrder>>

\* threadPool.reset() after the loop of start: ~ThreadPool calls shutdown
PoolDestructor ==
    /\ apc = "released"
    /\ Runs(AcceptorThread)
    /\ apc' = "cleanup"
    /\ spc' = [spc EXCEPT !["dtor"] = "sd_lock"]
    /\ UNCHANGED <<osVars, pathVars, handlerVars, lifeVars, running, numThreads, workers, task_queue, stop, queue_mtx, cvWaiting,
                   wpc, w_sock, handler, a_sock, accepted, sig, joinIdx,
                   shutdownFlag, crashed, closed, enqOrder, deqOrder, startOrder>>

\* ~ThreadPool after its shutdown call has returned: the members are
\* destroyed; ~thread on a thread that is still joinable calls std::terminate
DestroyWorkers ==
    /\ apc = "cleanup"
    /\ Runs(AcceptorThread)
    /\ spc["dtor"] = "done"
    /\ IF workers \subseteq Range(joined)
       THEN /\ apc' = "destroyed"
            /\ UNCHANGED crashed
       ELSE /\ crashed' = TRUE
            /\ UNCHANGED apc
    /\ UNCHANGED <<osVars, pathVars, handlerVars, lifeVars, running, numThreads, workers, task_queue, stop, queue_mtx, cvWaiting,
                   wpc, w_sock, handler, a_sock, accepted, sig, spc, joinIdx,
                   shutdownFlag, closed, enqOrder, deqOrder, startOrder>>

\* start returns and main destroys the server: ~HttpServer calls stop, whose
\* call_once waits for a call in progress and runs the body only if none was made
ServerDestructor ==
    /\ apc = "destroyed"
    /\ Runs(AcceptorThread)
    /\ shutdownFlag => spc["signal"] = "done"
    /\ running' = (running /\ shutdownFlag)
    /\ stopBodies' = IF shutdownFlag THEN stopBodies ELSE stopBodies + 1
    /\ shutdownFlag' = TRUE
    /\ apc' = "exit"
    /\ UNCHANGED <<osVars, pathVars, handlerVars, numThreads, workers, task_queue, stop, queue_mtx, cvWaiting,
                   wpc, w_sock, handler, a_sock, accepted, sig, spc, joinIdx,
                   crashed, closed, enqOrder, deqOrder, startOrder, joined, intr, refused>>

\* ======================================================================
\* Socket: construction, move and destruction
\* ======================================================================

NumHandles == 3
MaxFds     == 2

\* the storage a Socket object can live in, and the descriptors the OS hands
\* out; a descriptor number stands for one open of it
Handles == 1..NumHandles
Fds     == 1..MaxFds

\* ::close(fd)
Close(cl, fd) == [cl EXCEPT ![fd] = @ + 1]

\* a move that leaves the descriptor in the object moved from
KeepFd(fds, other) == fds

\* other.socket_fd = -1
ReleaseFd(fds, other) == [fds EXCEPT ![other] = -1]

\* Socket::Socket(int socket_fd): throws for a negative value, and then no
\* object exists
SocketCtor ==
    \E o \in Handles \ alive, fd \in {-1, fdCount + 1} :
        /\ fdCount < MaxFds
        /\ IF fd < 0
           THEN UNCHANGED <<alive, socket_fd, fdCount>>
           ELSE /\ alive' = alive \cup {o}
                /\ socket_fd' = [socket_fd EXCEPT ![o] = fd]
                /\ fdCount' = fdCount + 1
        /\ lastOp' = [op |-> "ctor", o |-> o, other |-> o, fd |-> fd]
        /\ UNCHANGED <<closes, sendVars, acceptVars, pathVars, connVars, poolVars>>

\* Socket::~Socket
SocketDtor ==
    \E o \in alive :
        /\ alive' = alive \ {o}
        /\ closes' = IF socket_fd[o] >= 0 THEN Close(closes, socket_fd[o]) ELSE closes
        /\ lastOp' = [op |-> "dtor", o |-> o, other |-> o, fd |-> socket_fd[o]]
        /\ UNCHANGED <<socket_fd, fdCount, sendVars, acceptVars, pathVars, connVars, poolVars>>

\* Socket::Socket(Socket&& other)
SocketMoveCtor ==
    \E o \in Handles \ alive, other \in alive :
        /\ alive' = alive \cup {o}
        /\ socket_fd' = ReleaseFd([socket_fd EXCEPT ![o] = socket_fd[other]], other)
        /\ lastOp' = [op |-> "move_ctor", o |-> o, other |-> other, fd |-> socket_fd[other]]
        /\ UNCHANGED <<closes, fdCount, sendVars, acceptVars, pathVars, connVars, poolVars>>

\* Socket::operator=(Socket&& other); fd of lastOp: what the target held
SocketMoveAssign ==
    \E o \in alive, other \in alive :
        /\ IF o # other
           THEN /\ closes' = IF socket_fd[o] >= 0 THEN Close(closes, socket_fd[o])
                             ELSE closes
                /\ socket_fd' = ReleaseFd([socket_fd EXCEPT ![o] = socket_fd[other]], other)
           ELSE UNCHANGED <<closes, socket_fd>>
        /\ lastOp' = [op |-> "move_assign", o |-> o, other |-> other, fd |-> socket_fd[o]]
        /\ UNCHANGED <<alive, fdCount, sendVars, acceptVars, pathVars, connVars, poolVars>>

\* ======================================================================
\* Socket::send: the loop over ::send
\* ======================================================================

MaxSendLen   == 3
MaxSendCalls == 4

\* size_t values are kept as the integer they are congruent to modulo
\* SIZE_MAX + 1 that lies nearest to zero: -1 stands for SIZE_MAX.  len is
\* far below SIZE_MAX, so a < b on size_t, for b = len, is:
SizeLess(a, b) == a >= 0 /\ a < b

\* what ::send(fd, data + totalSent, len - totalSent) can answer: a number of
\* bytes taken, -1 with EAGAIN / EWOULDBLOCK, or -1 with another errno
SendResults(room) ==
    { [res |-> "bytes", bytesSent |-> k] : k \in 1..room }
    \cup { [res |-> "eagain", bytesSent |-> -1], [res |-> "fail", bytesSent |-> -1] }

\* ::sendfile(socket_fd, file_fd, offset, count - totalSent) at the end of
\* the file: 0
EndOfFile == [res |-> "eof", bytesSent |-> 0]

\* The positions of the buffer or file (1-based) the OS took, in the order taken
RECURSIVE Written(_)
Written(log) ==
    IF log = <<>> THEN <<>>
    ELSE LET e == log[Len(log)]
             before == Written(SubSeq(log, 1, Len(log) - 1))
         IN IF e.res = "bytes"
            THEN before \o [i \in 1..e.bytesSent |-> e.from + i - 1]
            ELSE before

\* Where the next system call starts: ::send at data + totalSent, ::sendfile
\* at *offset, which the kernel advances by what it has sent
StartsAt(op, log, total) ==
    IF op = "send" THEN total + 1 ELSE Len(Written(log)) + 1

\* The answers of the OS to the next system call: ::send takes up to
\* len - totalSent bytes; ::sendfile up to count - totalSent bytes of what the
\* file holds from *offset on, in a file of at most count bytes, and 0 at its
\* end; either may fail.  Once MaxSendCalls answers are on record the OS
\* answers would-block.
Answers(op, log, total, count) ==
    LET left == count - (StartsAt(op, log, total) - 1)
        room == IF count - total < left THEN count - total ELSE left
    IN IF Len(log) >= MaxSendCalls
       THEN { [res |-> "eagain", bytesSent |-> -1] }
       ELSE SendResults(room) \cup (IF op = "sendfile" THEN {EndOfFile} ELSE {})

\* The record of a system call
Logged(log, e) ==
    IF log # <<>> /\ log[Len(log)] = e /\ e.res \in {"eagain", "eof"}
    THEN log
    ELSE Append(log, e)

\* a caller invokes send(buf, len, flags) or sendfile(file_fd, &offset, count)
SendCall ==
    /\ sendPc \in {"idle", "returned"}
    /\ sendOp' \in {"send", "sendfile"}
    /\ sendLen' \in 0..MaxSendLen
    /\ totalSent' = 0
    /\ sendRet' = 0
    /\ sysLog' = <<>>
    /\ sendPc' = "loop"
    /\ UNCHANGED <<socketVars, acceptVars, pathVars, connVars, poolVars>>

\* while(totalSent < len) holds: ssize_t bytesSent = ::send(...) or
\* ::sendfile(...)
SendSyscall ==
    /\ sendPc = "loop"
    /\ SizeLess(totalSent, sendLen)
    /\ \E r \in Answers(sendOp, sysLog, totalSent, sendLen) :
          sysLog' = Logged(sysLog, [from |-> StartsAt(sendOp, sysLog, totalSent),
                                    res |-> r.res, bytesSent |-> r.bytesSent])
    /\ sendPc' = "sys"
    /\ UNCHANGED <<sendOp, sendLen, totalSent, sendRet, socketVars, acceptVars, pathVars, connVars, poolVars>>

\* if(bytesSent < 0) { if(errno == EAGAIN || errno == EWOULDBLOCK) continue; }
\* totalSent += bytesSent;
SendAccount ==
    /\ sendPc = "sys"
    /\ LET r == sysLog[Len(sysLog)]
       IN totalSent' = IF r.res = "eagain" THEN totalSent
                       ELSE totalSent + r.bytesSent
    /\ sendPc' = "loop"
    /\ UNCHANGED <<sendOp, sendLen, sendRet, sysLog, socketVars, acceptVars, pathVars, connVars, poolVars>>

\* the loop is left: return totalSent, as ssize_t
SendReturn ==
    /\ sendPc = "loop"
    /\ ~SizeLess(totalSent, sendLen)
    /\ sendRet' = totalSent
    /\ sendPc' = "returned"
    /\ UNCHANGED <<sendOp, sendLen, totalSent, sysLog, socketVars, acceptVars, pathVars, connVars, poolVars>>

\* ======================================================================
\* HttpServer::start, acceptConnections and EpollManager::waitForEvents
\* ======================================================================

MaxConns   == 3
max_events == 10

\* The descriptors of the listening socket and of the eventfd, and the
\* descriptor the n-th successful accept returns
Fd == [listen |-> 5, wakeup |-> 4]
ClientFd(n) == Fd.listen + n

\* struct epoll_event: data.fd and the event mask; a value-initialised one
Event(fd)  == [fd |-> fd, events |-> {"EPOLLIN"}]
ZeroEvent  == [fd |-> 0, events |-> {}]

NoWait ==
    [called |-> FALSE, ready |-> {}, event_count |-> 0, threw |-> FALSE, returned |-> <<>>]

\* The descriptors of the interest list that are readable: epoll is used
\* level-triggered
Ready == (IF pending > 0 THEN {Fd.listen} ELSE {}) \cup (IF wakeupReady THEN {Fd.wakeup} ELSE {})

\* The orders in which epoll_wait can report a set of descriptors
RECURSIVE Orders(_)
Orders(S) ==
    IF S = {} THEN { <<>> }
    ELSE UNION { { <<Event(fd)>> \o rest : rest \in Orders(S \ {fd}) } : fd \in S }

\* std::vector<epoll_event> events(max_events), filled by epoll_wait and then
\* events.resize(event_count) under if(event_count > 0)
Resized(event_count, filled) ==
    IF event_count > 0 THEN filled
    ELSE [i \in 1..max_events |-> ZeroEvent]

\* a client connects: the connection waits in the backlog
ClientConnects ==
    /\ lpc # "none"
    /\ pending + acceptCount < MaxConns
    /\ pending' = pending + 1
    /\ UNCHANGED <<lpc, wakeupReady, events, lastWait, client_fd, acceptErr, acceptCount, handed,
                   socketVars, sendVars, pathVars, connVars, poolVars>>

\* HttpServer::stop, as far as the acceptor sees it: wakeup(), running = false
StopRequested ==
    /\ lpc \notin {"none", "left"}
    /\ running
    /\ wakeupReady' = TRUE
    /\ running' = FALSE
    /\ UNCHANGED <<lpc, pending, events, lastWait, client_fd, acceptErr, acceptCount, handed,
                   socketVars, sendVars, pathVars, handlerVars, poolVars>>

\* while(running): waitForEvents(500) is called and epoll_wait entered
LoopTest ==
    /\ lpc = "wait"
    /\ running
    /\ lpc' = "blocked"
    /\ UNCHANGED <<pending, wakeupReady, events, lastWait, client_fd, acceptErr, acceptCount,
                   handed, socketVars, sendVars, pathVars, connVars, poolVars>>

\* EpollManager::waitForEvents from the return of epoll_wait on: epoll_wait
\* reports what is ready; with nothing ready it times out (0), is interrupted
\* (-1, EINTR) or fails (-1, another errno: waitForEvents throws)
WaitForEvents ==
    /\ lpc = "blocked"
    /\ \E outcome \in IF Ready # {} THEN {"ready"} ELSE {"timeout", "eintr", "error"},
          filled \in Orders(Ready) :
        LET event_count == CASE outcome = "ready"   -> Len(filled)
                             [] outcome = "timeout" -> 0
                             [] OTHER               -> -1
            returned == IF outcome = "error" THEN <<>> ELSE Resized(event_count, filled)
        IN /\ lastWait' = [called |-> TRUE, ready |-> Ready, event_count |-> event_count,
                           threw |-> outcome = "error", returned |-> returned]
           /\ events' = returned
           \* read(wakeup_fd, ...) for the entries of the eventfd
           /\ wakeupReady' = (wakeupReady /\ \A i \in 1..Len(returned) : returned[i].fd # Fd.wakeup)
           /\ lpc' = IF outcome = "error" THEN "left" ELSE "woke"
    /\ UNCHANGED <<pending, client_fd, acceptErr, acceptCount, handed,
                   socketVars, sendVars, pathVars, connVars, poolVars>>

\* while(running) fails, or if(!running) break after the wait
LoopLeft ==
    /\ lpc \in {"wait", "woke"}
    /\ ~running
    /\ lpc' = "left"
    /\ UNCHANGED <<pending, wakeupReady, events, lastWait, client_fd, acceptErr, acceptCount, handed,
                   socketVars, sendVars, pathVars, connVars, poolVars>>

\* for(auto& event : events): the wakeup descriptor is skipped, the listening
\* descriptor leads into acceptConnections, any other entry is passed over
ForEvent ==
    /\ lpc \in {"woke", "iterate"}
    /\ lpc = "woke" => running
    /\ IF events = <<>>
       THEN /\ lpc' = "wait"
            /\ UNCHANGED events
       ELSE /\ events' = Tail(events)
            /\ lpc' = IF Head(events).fd # Fd.wakeup /\ Head(events).fd = Fd.listen
                      THEN "accept" ELSE "iterate"
    /\ UNCHANGED <<pending, wakeupReady, lastWait, client_fd, acceptErr, acceptCount, handed,
                   socketVars, sendVars, pathVars, connVars, poolVars>>

\* acceptConnections: while(running) { client_fd = accept(...)
AcceptCall ==
    /\ lpc = "accept"
    /\ IF ~running
       THEN /\ lpc' = "iterate"
            /\ UNCHANGED <<pending, client_fd, acceptErr, acceptCount>>
       ELSE /\ lpc' = "check"
            /\ \E res \in IF pending > 0 THEN {"fd", "error"} ELSE {"eagain", "error"} :
                /\ acceptErr' = IF res = "fd" THEN "none" ELSE res
                /\ client_fd' = IF res = "fd" THEN ClientFd(acceptCount + 1) ELSE -1
                /\ acceptCount' = IF res = "fd" THEN acceptCount + 1 ELSE acceptCount
                /\ pending' = IF res = "fd" THEN pending - 1 ELSE pending
    /\ UNCHANGED <<wakeupReady, events, lastWait, handed,
                   socketVars, sendVars, pathVars, connVars, poolVars>>

\* if(!running) break; if(client_fd < 0) { EAGAIN: break; otherwise continue }
\* make_unique<Socket>(client_fd), setNonBlocking(true), enqueue
AcceptCheck ==
    /\ lpc = "check"
    /\ IF ~running THEN
            /\ lpc' = "iterate"
            /\ UNCHANGED handed
       ELSE IF client_fd < 0 THEN
            /\ lpc' = IF acceptErr = "eagain" THEN "iterate" ELSE "accept"
            /\ UNCHANGED handed
       ELSE /\ handed' = Append(handed, client_fd)
            /\ lpc' = "accept"
    /\ UNCHANGED <<pending, wakeupReady, events, lastWait, client_fd, acceptErr, acceptCount,
                   socketVars, sendVars, pathVars, connVars, poolVars>>

\* ======================================================================
\* Initial states and specifications
\* ======================================================================

\* The values the variables of a component have in the specifications that
\* do not run it
IdleHandler ==
    /\ variant = 0
    /\ hpc = "none"
    /\ requestCount = 0
    /\ totalElapsedMs = 0
    /\ exch = NoExchange
    /\ sock = "none"

IdleConn ==
    /\ running = FALSE
    /\ IdleHandler

IdlePath ==
    /\ uri = <<>>
    /\ sanitized = NoResult

IdlePool ==
    /\ numThreads = 0
    /\ workers = {}
    /\ task_queue = <<>>
    /\ stop = FALSE
    /\ queue_mtx = Free
    /\ cvWaiting = {}
    /\ wpc = [w \in AllWorkers |-> "none"]
    /\ w_sock = [w \in AllWorkers |-> NoSocket]
    /\ handler = [t \in Threads |-> NoSocket]
    /\ apc = "none"
    /\ a_sock = NoSocket
    /\ accepted = 0
    /\ sig = {}
    /\ spc = [c \in Callers |-> "none"]
    /\ joinIdx = [c \in Callers |-> 0]
    /\ shutdownFlag = FALSE
    /\ crashed = FALSE
    /\ closed = {}
    /\ enqOrder = <<>>
    /\ deqOrder = <<>>
    /\ startOrder = <<>>
    /\ joined = <<>>
    /\ stopBodies = 0
    /\ intr = FALSE
    /\ refused = FALSE

IdleSocket ==
    /\ alive = {}
    /\ socket_fd = [o \in Handles |-> -1]
    /\ fdCount = 0
    /\ closes = [fd \in Fds |-> 0]
    /\ lastOp = [op |-> "none", o |-> 0, other |-> 0, fd |-> -1]

IdleSend ==
    /\ sendOp = "none"
    /\ sendPc = "idle"
    /\ sendLen = 0
    /\ totalSent = 0
    /\ sendRet = 0
    /\ sysLog = <<>>

IdleAccept ==
    /\ lpc = "none"
    /\ pending = 0
    /\ wakeupReady = FALSE
    /\ events = <<>>
    /\ lastWait = NoWait
    /\ client_fd = -1
    /\ acceptErr = "none"
    /\ acceptCount = 0
    /\ handed = <<>>

IdleOs == IdleSocket /\ IdleSend /\ IdleAccept

vars == <<pathVars, connVars, poolVars, osVars>>

\* ---- SpecSocket: Socket objects are constructed around the descriptors
\* accept returns, moved and destroyed in any order
InitSocket ==
    /\ IdleSocket
    /\ IdleSend
    /\ IdleAccept
    /\ IdlePath
    /\ IdleConn
    /\ IdlePool

NextSocket ==
    \/ SocketCtor
    \/ SocketDtor
    \/ SocketMoveCtor
    \/ SocketMoveAssign

SpecSocket == InitSocket /\ [][NextSocket]_vars

\* ---- SpecSend: calls of Socket::send, one after the other, the OS answering
\* each ::send as it likes
InitSend ==
    /\ IdleOs
    /\ IdlePath
    /\ IdleConn
    /\ IdlePool

NextSend ==
    \/ SendCall
    \/ SendSyscall
    \/ SendAccount
    \/ SendReturn

SpecSend == InitSend /\ [][NextSend]_vars

\* ---- LiveSend: SpecSend under the scheduling the end of a call rests on:
\* the thread that executes the call takes the next step of the loop.
\* Nothing obliges a caller to call, or the OS to give any particular answer.
SendStep ==
    \/ SendSyscall
    \/ SendAccount
    \/ SendReturn

LiveSend == InitSend /\ [][NextSend]_vars /\ WF_vars(SendStep)

\* ---- SpecAccept: the loop of HttpServer::start on the main thread, clients
\* that connect, and a stop request
InitAccept ==
    /\ lpc = "wait"
    /\ pending = 0
    /\ wakeupReady = FALSE
    /\ events = <<>>
    /\ lastWait = NoWait
    /\ client_fd = -1
    /\ acceptErr = "none"
    /\ acceptCount = 0
    /\ handed = <<>>
    /\ running = TRUE
    /\ IdleHandler
    /\ IdleSocket
    /\ IdleSend
    /\ IdlePath
    /\ IdlePool

NextAccept ==
    \/ ClientConnects
    \/ StopRequested
    \/ LoopTest
    \/ WaitForEvents
    \/ LoopLeft
    \/ ForEvent
    \/ AcceptCall
    \/ AcceptCheck

SpecAccept == InitAccept /\ [][NextAccept]_vars

\* ---- LiveAccept: SpecAccept under the scheduling the return of
\* acceptConnections rests on: the main thread takes the next step of its
\* loop, and epoll_wait returns when something is ready or its 500 ms are
\* over.  Nothing obliges a client to connect, a signal to arrive, or accept
\* to give any particular answer.
AcceptorLoopStep ==
    \/ LoopTest
    \/ WaitForEvents
    \/ LoopLeft
    \/ ForEvent
    \/ AcceptCall
    \/ AcceptCheck

LiveAccept == InitAccept /\ [][NextAccept]_vars /\ WF_vars(AcceptorLoopStep)


\* ---- SpecConn: one connection handler on one connection
InitConn ==
    /\ variant \in {1, 2}
    /\ running = TRUE
    /\ hpc = "wait"
    /\ requestCount = 0
    /\ totalElapsedMs = 0
    /\ exch = NoExchange
    /\ sock = "open"
    /\ IdlePath
    /\ IdlePool
    /\ IdleOs

NextConn ==
    \/ PollTimeout
    \/ PollReady
    \/ PollError
    \/ WaitExpired
    \/ HandleRequest
    \/ Continue
    \/ HandlerShutdown
    \/ CloseConnection
    \/ ServerStop

SpecConn == InitConn /\ [][NextConn]_vars

\* ---- SpecPool: the pool as constructed by setupDependencies, the acceptor
\* in its loop, a signal that may stop the server, and the end of start and
\* of main once the loop is left
InitPool ==
    /\ numThreads \in 0..NumWorkers
    /\ workers = 1..numThreads
    /\ task_queue = <<>>
    /\ stop = FALSE
    /\ queue_mtx = Free
    /\ cvWaiting = {}
    /\ wpc = [w \in AllWorkers |-> IF w <= numThreads THEN "lock" ELSE "none"]
    /\ w_sock = [w \in AllWorkers |-> NoSocket]
    /\ handler = [t \in Threads |-> NoSocket]
    /\ apc = "accept"
    /\ a_sock = NoSocket
    /\ accepted = 0
    /\ sig = {}
    /\ spc = [c \in Callers |-> "none"]
    /\ joinIdx = [c \in Callers |-> 0]
    /\ shutdownFlag = FALSE
    /\ crashed = FALSE
    /\ closed = {}
    /\ enqOrder = <<>>
    /\ deqOrder = <<>>
    /\ startOrder = <<>>
    /\ joined = <<>>
    /\ stopBodies = 0
    /\ intr = FALSE
    /\ refused = FALSE
    /\ running = TRUE
    /\ IdleHandler
    /\ IdlePath
    /\ IdleOs

AcceptorStep ==
    \/ Accept
    \/ AcceptorLeaves
    \/ AfterAccept
    \/ EnqueueEntry
    \/ InlineReturn
    \/ InlineThrow
    \/ EnqueueLock
    \/ EnqueuePush
    \/ EnqueueNotify

WorkerStep(w) ==
    \/ WorkerLock(w)
    \/ WorkerWait(w)
    \/ WorkerSpuriousWake(w)
    \/ WorkerExit(w)
    \/ WorkerDequeue(w)
    \/ WorkerStart(w)
    \/ WorkerReturn(w)

SignalStep ==
    \/ \E t \in Threads : Signal(t)
    \/ StopRunning

ShutdownStep(c) ==
    \/ ShutdownLock(c)
    \/ ShutdownSetStop(c)
    \/ ShutdownNotifyAll(c)
    \/ ShutdownJoin(c)
    \/ ShutdownJoinSelf(c)
    \/ ShutdownClear(c)

ExitStep ==
    \/ ReleaseDependencies
    \/ PoolDestructor
    \/ DestroyWorkers
    \/ ServerDestructor

NextPool ==
    \/ AcceptorStep
    \/ \E w \in AllWorkers : WorkerStep(w)
    \/ SignalStep
    \/ \E c \in Callers : ShutdownStep(c)
    \/ ExitStep

SpecPool == InitPool /\ [][NextPool]_vars

\* ---- SpecNull: the pool and the server as in SpecPool, with a caller that
\* may also hand enqueue an empty pointer
NextNull ==
    \/ NextPool
    \/ NullEnqueue

SpecNull == InitPool /\ [][NextNull]_vars

\* ---- LivePool: the pool and the acceptor with no signal, under the
\* scheduling the liveness of the pool rests on: a thread that can take a step
\* of its own code eventually takes it, a thread that asks for the mutex gets
\* it if the mutex stays free, and every handler returns.  Nothing obliges a
\* client to connect or cv.wait to wake spuriously.  With running true and
\* stop false for good, the acceptor never leaves its loop and no worker exits.
NextLive ==
    \/ Accept
    \/ AfterAccept
    \/ EnqueueEntry
    \/ InlineReturn
    \/ EnqueueLock
    \/ EnqueuePush
    \/ EnqueueNotify
    \/ \E w \in AllWorkers :
          \/ WorkerLock(w)
          \/ WorkerWait(w)
          \/ WorkerSpuriousWake(w)
          \/ WorkerDequeue(w)
          \/ WorkerStart(w)
          \/ WorkerReturn(w)

AcceptorProgress ==
    \/ AfterAccept
    \/ EnqueueEntry
    \/ InlineReturn
    \/ EnqueuePush
    \/ EnqueueNotify

WorkerProgress(w) ==
    \/ WorkerWait(w)
    \/ WorkerExit(w)
    \/ WorkerDequeue(w)
    \/ WorkerStart(w)
    \/ WorkerReturn(w)

Fairness ==
    /\ WF_vars(AcceptorProgress)
    /\ WF_vars(EnqueueLock)
    /\ \A w \in AllWorkers : WF_vars(WorkerProgress(w)) /\ WF_vars(WorkerLock(w))

LivePool == InitPool /\ [][NextLive]_vars /\ Fairness

\* ---- LiveStop: SpecPool under the scheduling a bound on the shutdown rests
\* on: every thread that can take a step of its own code eventually takes it,
\* a thread that asks for the mutex again and again while it is repeatedly
\* free gets it, every handler returns, and a call of stop or shutdown that
\* can go on does.  Nothing obliges a client to connect or a signal to arrive.
AcceptorExit ==
    \/ AcceptorLeaves
    \/ InlineThrow
    \/ ReleaseDependencies
    \/ PoolDestructor
    \/ DestroyWorkers
    \/ ServerDestructor

ShutdownProgress(c) ==
    \/ ShutdownSetStop(c)
    \/ ShutdownNotifyAll(c)
    \/ ShutdownJoin(c)
    \/ ShutdownJoinSelf(c)
    \/ ShutdownClear(c)

StopFairness ==
    /\ WF_vars(AcceptorProgress)
    /\ WF_vars(AcceptorExit)
    /\ SF_vars(EnqueueLock)
    /\ WF_vars(StopRunning)
    /\ \A w \in AllWorkers : WF_vars(WorkerProgress(w)) /\ SF_vars(WorkerLock(w))
    /\ \A c \in Callers : WF_vars(ShutdownProgress(c)) /\ SF_vars(ShutdownLock(c))

LiveStop == InitPool /\ [][NextPool]_vars /\ StopFairness


\* ======================================================================
\* Specification of the resolver
\* ======================================================================

\* ---- SpecPath: resolve URIs one after the other
InitPath ==
    /\ uri \in Uris
    /\ sanitized = NoResult
    /\ IdleConn
    /\ IdlePool
    /\ IdleOs

Sanitize ==
    /\ sanitized = NoResult
    /\ sanitized' = sanitizePath(uri)
    /\ UNCHANGED <<osVars, uri, connVars, poolVars>>

NextUri ==
    /\ sanitized # NoResult
    /\ uri' \in Uris
    /\ sanitized' = NoResult
    /\ UNCHANGED <<osVars, connVars, poolVars>>

NextPath ==
    \/ Sanitize
    \/ NextUri

SpecPath == InitPath /\ [][NextPath]_vars

\* The canonical document root
CanonRoot == realpath(RootFolder).str

\* p has root as a prefix that ends at a directory boundary
UnderRoot(p, root) ==
    /\ StartsWith(p, root)
    /\ \/ Len(p) = Len(root)
       \/ root[Len(root)] = "/"
       \/ p[Len(root) + 1] = "/"

\* C7: whenever sanitizePath succeeds, the path it returns has the canonical
\* document root as a prefix ending at a directory boundary (a sibling
\* directory whose name merely starts with the root's characters is refused).
C7_PathContainment ==
    sanitized.kind = "path" => UnderRoot(sanitized.path, CanonRoot)


\* ======================================================================
\* Properties of the connection handler (SpecConn)
\* ======================================================================

\* C1: the number of request/response cycles a connection handler completes
\* before it closes the connection is at most 100.
C1_KeepAliveCap == requestCount <= MAX_KEEP_ALIVE_REQUESTS

\* A connection that is closed by the cap, after exactly 100 cycles
C1_Witness ==
    /\ hpc = "close"
    /\ requestCount = MAX_KEEP_ALIVE_REQUESTS

\* The exchange took the branch of handleRequest that sets
\* Connection: keep-alive: the request was parsed and answered, and the client
\* asked for keep-alive or sent no Connection header
ExchangeSetKeepAlive ==
    /\ exch.threw = "none"
    /\ LET c == getHeader(exch.request.headers, <<"Connection">>) IN
       ~c.has \/ c.val = <<"keep-alive">>

\* C2: once handleRequest has returned, the handler goes back to WaitForData
\* if and only if the exchange set Connection: keep-alive and the request
\* count is below 100; in every other case it goes to Close.
C2_ContinueTransition ==
    [][ (hpc = "continue" /\ hpc' # hpc) =>
          /\ hpc' \in {"wait", "close"}
          /\ hpc' = "wait" <=>
               (ExchangeSetKeepAlive /\ requestCount < MAX_KEEP_ALIVE_REQUESTS) ]_vars

\* A second request is awaited after a keep-alive exchange
C2_Witness ==
    /\ hpc = "wait"
    /\ requestCount = 1

\* The status codes of error responses
ErrorCodes == {400, 403, 404, 415, 500, 501}

\* The exchange answered POST /submit with 200
PostSubmitAnswered ==
    /\ exch.threw = "none"
    /\ exch.request.method = <<"POST">>
    /\ exch.response.status = 200

\* The Connection header of the status line and headers that reached the wire
WireConnection ==
    IF exch.wire = <<>> \/ exch.wire[1].part # "head" THEN <<>>
    ELSE getHeader(exch.wire[1].headers, <<"Connection">>).val

\* Every send of the exchange succeeded
Delivered == exch.wire # <<>> /\ exch.wire[Len(exch.wire)].status = exch.response.status

\* C3: after a POST /submit response and after every error response the
\* response on the wire carries Connection: close and the handler closes the
\* connection, whatever Connection header the request had.
C3_CloseAfterPostAndErrors ==
    (/\ hpc = "continue"
     /\ exch.raw = exch.arrived
     /\ Delivered
     /\ PostSubmitAnswered \/ exch.response.status \in ErrorCodes)
    => /\ WireConnection = <<"close">>
       /\ ~exch.keepAlive

\* C4: when the bytes read fail to parse, the handler sends a 400 Bad Request
\* response and closes the connection.
C4_ParseFailureIs400 ==
    (/\ hpc = "continue"
     /\ exch.threw = "runtime_error"
     /\ ~parse(exch.arrived).ok)
    => /\ exch.response.status = 400
       /\ ~exch.keepAlive

\* The whole of a request with an unknown method token and an otherwise
\* well-formed start line and header block has arrived
UnknownMethodArrived ==
    /\ exch.raw \in {Requests.Put, Requests.PutClose}
    /\ exch.arrived = exch.raw

\* C5: a request with a parseable start line and an unknown method token is
\* not a parse failure: it has method INVALID, no builder is found for it and
\* the handler answers 501 Not Implemented with Connection: close.
C5_UnknownMethodIs501 ==
    (hpc = "continue" /\ UnknownMethodArrived)
    => /\ exch.threw = "none"
       /\ exch.request.method = <<"INVALID">>
       /\ exch.response.status = 501
       /\ getHeader(exch.response.headers, <<"Connection">>).val = <<"close">>

IsPrefix(s, t) == Len(s) <= Len(t) /\ SubSeq(t, 1, Len(s)) = s

\* Every worker of the pool holds a socket it has dequeued, started or not
AllWorkersBusy ==
    \A w \in workers : w_sock[w] # NoSocket \/ handler[w] # NoSocket

\* C8 (as amended): the sockets are taken from the task queue in exactly the
\* order in which enqueue added them; the order in which the handlers are then
\* started is left to the scheduling of the workers that took them.
C8_DequeueFIFO == IsPrefix(deqOrder, enqOrder)

\* All workers are busy with the sockets they took, in order, while a later
\* socket is still queued
C8_Witness ==
    /\ numThreads > 0
    /\ AllWorkersBusy
    /\ task_queue # <<>>
    /\ Len(deqOrder) = numThreads

\* C8 (as stated): with N > 0 workers and more pending connections than
\* workers, the sockets are taken from the queue and their handlers started in
\* exactly the order in which enqueue added them.
C8_StartFIFO ==
    (/\ numThreads > 0
     /\ ~stop
     /\ AllWorkersBusy
     /\ task_queue # <<>>)
    => /\ IsPrefix(deqOrder, enqOrder)
       /\ IsPrefix(startOrder, enqOrder)

\* C9: with N > 0 workers and no shutdown, every socket enqueue has put on the
\* task queue is eventually taken by a worker and handed to a connection
\* handler: no queued socket waits forever.
C9_PoolLiveness ==
    \A s \in Sockets : (s \in Range(task_queue)) ~> (s \in Range(startOrder))

\* Every socket went through the queue to a handler and all workers are
\* blocked in cv.wait again
C9_Witness ==
    /\ numThreads > 0
    /\ Len(enqOrder) = MaxSockets
    /\ Range(startOrder) = Sockets
    /\ cvWaiting = workers

\* The number of holders of socket s: the acceptor's unique_ptr, the entries
\* of the queue, the workers' unique_ptrs and the handlers
Holders(s) ==
    (IF a_sock = s THEN 1 ELSE 0)
    + Cardinality({ i \in 1..Len(task_queue) : task_queue[i] = s })
    + Cardinality({ w \in AllWorkers : w_sock[w] = s })
    + Cardinality({ t \in Threads : handler[t] = s })

NoDuplicates(seq) == Cardinality(Range(seq)) = Len(seq)

\* C10: every socket has at most one holder at a time, is dequeued at most
\* once and is driven by at most one handler; a destroyed socket has no
\* holder; and the acceptor holds no socket once enqueue has returned.
C10_SingleConsumer ==
    /\ \A s \in Sockets : Holders(s) <= 1
    /\ \A s \in closed : Holders(s) = 0
    /\ NoDuplicates(deqOrder)
    /\ NoDuplicates(startOrder)
    /\ apc \in {"accept", "notify", "returned"} => a_sock = NoSocket

\* Three sockets with three different holders: a handler, the queue and the
\* acceptor inside enqueue
C10_Witness ==
    /\ \E w \in workers : handler[w] # NoSocket
    /\ task_queue # <<>>
    /\ a_sock # NoSocket
    /\ apc = "enq_lock"

\* ======================================================================
\* Properties of the shutdown of the pool (SpecPool, LiveStop)
\* ======================================================================

\* C11: shutdown sets the stop flag, wakes all workers and joins them, and a
\* task that is still in the queue when the stop flag is set is dropped: from
\* then on no worker takes a task from the queue.
C11_QueuedTasksDropped ==
    [][stop => deqOrder' = deqOrder]_vars

\* C12: once shutdown has set the stop flag of a pool created with N > 0
\* workers (while it joins them and after it has returned), enqueue neither
\* queues the socket nor runs a connection handler on the calling thread.
C12_EnqueueAfterShutdownNoOp ==
    [][(numThreads > 0 /\ stop) =>
          /\ enqOrder' = enqOrder
          /\ (handler[AcceptorThread] = NoSocket => handler'[AcceptorThread] = NoSocket)]_vars

C14_ZeroWorkersInline ==
    /\ [](numThreads = 0 =>
            /\ task_queue = <<>>
            /\ enqOrder = <<>>
            /\ \A w \in AllWorkers : handler[w] = NoSocket /\ w_sock[w] = NoSocket
            /\ (apc = "inline") = (handler[AcceptorThread] # NoSocket)
            /\ apc \notin {"enqueue", "inline"} => Range(startOrder) \subseteq closed)
    /\ [][(numThreads = 0 /\ apc = "enqueue" /\ apc' # apc) =>
              /\ apc' = "inline"
              /\ handler'[AcceptorThread] = a_sock
              /\ startOrder' = Append(startOrder, a_sock)]_vars
    /\ [][(numThreads = 0 /\ apc = "inline" /\ apc' # apc) =>
              /\ apc' \in {"accept", "returned"}
              /\ handler'[AcceptorThread] = NoSocket
              /\ closed' = closed \cup {handler[AcceptorThread]}]_vars

\* Two connections were handled inline, one after the other, by a pool
\* without workers
C14_Witness ==
    /\ numThreads = 0
    /\ apc = "accept"
    /\ Len(startOrder) = 2
    /\ Range(startOrder) \subseteq closed

\* C15: enqueue of a null socket is refused: the call returns from its first
\* test and leaves the task queue, the stop flag, the workers, the mutex, the
\* condition variable's waiters and every handler as they were, and no queue
\* entry or handler ever exists for the null socket.
C15_NullSocketRejected ==
    /\ [](/\ NoSocket \notin Range(enqOrder)
          /\ NoSocket \notin Range(startOrder)
          /\ NoSocket \notin Range(task_queue))
    /\ [][(apc = "enqueue" /\ a_sock = NoSocket /\ apc' # apc) =>
              /\ apc' = "accept"
              /\ refused'
              /\ UNCHANGED <<task_queue, stop, workers, queue_mtx, cvWaiting, wpc,
                             w_sock, handler, closed, enqOrder, deqOrder,
                             startOrder>>]_vars

\* A null socket was refused by an active pool with a task waiting in its
\* queue, and by a pool without workers
C15_Witness ==
    /\ refused
    /\ apc = "accept"
    /\ ~stop
    /\ \/ numThreads > 0 /\ task_queue # <<>>
       \/ numThreads = 0 /\ closed # {}

\* ---- Properties of the running flag and of the end of the server (SpecPool, LiveStop)

\* C16: the running flag never goes back from false to true, and once it is
\* false the acceptor hands the pool no further task: nothing is pushed to
\* the task queue and enqueue starts no handler on the acceptor's thread.
C16_NoEnqueueAfterStop ==
    [][/\ running' => running
       /\ ~running =>
            /\ enqOrder' = enqOrder
            /\ (handler[AcceptorThread] = NoSocket => handler'[AcceptorThread] = NoSocket)]_vars

\* The part of C16 about the flag alone: running changes at most once, from
\* true to false, in the one body of stop that call_once admits
C16_RunningFallsOnce ==
    [][/\ running' => running
       /\ (running /\ ~running') => (stopBodies' = 1 /\ shutdownFlag)]_vars

\* C17: once running is false and stop is set, the shutdown comes to its
\* end: every worker leaves its loop and is joined, and the call of
\* ThreadPool::shutdown that joins them returns.
C17_ShutdownTerminates ==
    (~running /\ stop) ~>
        /\ \A w \in 1..numThreads : wpc[w] = "exited"
        /\ Range(joined) = 1..numThreads
        /\ workers = {}
        /\ \E c \in Callers : spc[c] = "done"

\* The case of C17 in which the signal handler runs on the main thread: there
\* the shutdown does come to its end
C17_MainThreadStop ==
    (~running /\ stop /\ sig = {AcceptorThread}) ~>
        /\ \A w \in 1..numThreads : wpc[w] = "exited"
        /\ Range(joined) = 1..numThreads
        /\ workers = {}
        /\ \E c \in Callers : spc[c] = "done"

\* ---- Properties of the parser and of the error responses (SpecConn)

\* The header block of the data a handleRequest call received: where it ends,
\* and the Content-Length it declares
HeadersEndOf(data) == FindCrlfCrlf(data, FindTok(data, "CRLF", 1) + 1)
DeclaredLength(data) ==
    stoul(getHeader(parseHeaders(SubSeq(data, FindTok(data, "CRLF", 1) + 1,
                                        HeadersEndOf(data) - 1)),
                    <<"Content-Length">>).val)
DeclaresLength(data) ==
    /\ FindTok(data, "CRLF", 1) # 0
    /\ HeadersEndOf(data) # 0
    /\ getHeader(parseHeaders(SubSeq(data, FindTok(data, "CRLF", 1) + 1,
                                     HeadersEndOf(data) - 1)),
                 <<"Content-Length">>).has
    /\ DeclaredLength(data).ok

\* C18: for received data whose header block declares Content-Length N, a
\* successful parse leaves as body exactly the N bytes that follow the blank
\* line, and when fewer than N bytes follow it (none at all included) the
\* parse fails.
C18_ContentLengthBody ==
    DeclaresLength(exch.arrived) =>
        LET following == Len(exch.arrived) - (HeadersEndOf(exch.arrived) + 1)
            N == DeclaredLength(exch.arrived).n
        IN /\ exch.threw = "none" =>
                /\ Len(exch.request.body) = N
                /\ exch.request.body =
                       SubSeq(exch.arrived, HeadersEndOf(exch.arrived) + 2,
                              HeadersEndOf(exch.arrived) + 1 + N)
           /\ following < N => exch.threw = "runtime_error"

\* The part of C18 that holds: the same with at least one byte after the
\* blank line
C18_WithBodyBytes ==
    (/\ DeclaresLength(exch.arrived)
     /\ Len(exch.arrived) > HeadersEndOf(exch.arrived) + 1) =>
        LET following == Len(exch.arrived) - (HeadersEndOf(exch.arrived) + 1)
            N == DeclaredLength(exch.arrived).n
        IN IF following < N
           THEN exch.threw = "runtime_error"
           ELSE /\ exch.threw = "none"
                /\ exch.request.body =
                       SubSeq(exch.arrived, HeadersEndOf(exch.arrived) + 2,
                              HeadersEndOf(exch.arrived) + 1 + N)

\* C19: a request whose version token is not HTTP/1.1 is a parse failure and
\* never reaches a builder: whatever handleRequest has parsed without an
\* exception carries the version HTTP/1.1.
C19_VersionRejected ==
    (exch.arrived # <<>> /\ exch.threw = "none") => exch.request.version = <<"HTTP/1.1">>

\* What reached the wire of an exchange begins with the status line and the
\* headers of the error response composed for its status code, whose body is
\* "<code> <reason>"
ErrorOnWire(wire, response) ==
    /\ wire[1].part = "head"
    /\ wire[1].version = "HTTP/1.1"
    /\ wire[1].status = response.status
    /\ wire[1].reason = Reason(response.status)
    /\ getHeader(wire[1].headers, <<"Content-Type">>) = [has |-> TRUE, val |-> <<"text/html">>]
    /\ getHeader(wire[1].headers, <<"Connection">>) = [has |-> TRUE, val |-> <<"close">>]
    /\ getHeader(wire[1].headers, <<"Content-Length">>) =
           [has |-> TRUE, val |-> <<ToString(response.body.len)>>]
    /\ response.body = TextBody(<<ToString(response.status), "SP", Reason(response.status)>>)

\* C20: every error that reaches the wire does so as the response the
\* composer makes for its code: the status line, Content-Type: text/html,
\* Connection: close, the Content-Length of the body, and the body
\* "<code> <reason>"; for the errors of the builders and for those raised
\* while the request is read or parsed.
C20_ErrorResponsesComplete ==
    (exch.response.status \in ErrorCodes /\ exch.wire # <<>>) =>
        ErrorOnWire(exch.wire, exch.response)

\* The part of C20 about the errors of the builders, which go out through
\* sendResponse
C20_BuilderErrorsComplete ==
    (exch.response.status \in ErrorCodes /\ exch.wire # <<>> /\ exch.threw = "none") =>
        ErrorOnWire(exch.wire, exch.response)

\* ---- Properties of the POST builder (SpecConn)

\* The pairs of a form body as C21 reads them: split on '&', each pair on its
\* first '=', and a pair without '=' is its own text as key with an empty value
RECURSIVE PairsAsStated(_, _)
PairsAsStated(body, pos) ==
    LET Pair(keyValue, eq) ==
            << decode(IF eq = 0 THEN keyValue ELSE SubSeq(keyValue, 1, eq - 1)),
               IF eq = 0 THEN <<>> ELSE decode(SubSeq(keyValue, eq + 1, Len(keyValue))) >>
        To(end) == << Pair(SubSeq(body, pos, end - 1),
                           FindTok(SubSeq(body, pos, end - 1), "=", 1)) >>
                   \o PairsAsStated(body, end + 1)
        PairEnd(found) == To(IF found = 0 THEN Len(body) + 1 ELSE found)
    IN IF pos > Len(body) THEN <<>>
       ELSE PairEnd(FindTok(body, "&", pos))

\* text holds line as a run of adjacent tokens
HasLine(text, line) ==
    \E i \in 1..Len(text) : i + Len(line) - 1 <= Len(text) /\ SubSeq(text, i, i + Len(line) - 1) = line

\* The exchange is a POST the form builder answered with success
FormAnswered ==
    /\ exch.threw = "none"
    /\ exch.request.method = <<"POST">>
    /\ exch.response.status = 200

\* C21: the response to a form POST carries, for every pair of the body, the
\* line 'key: value' CRLF with key and value decoded, a pair without '='
\* keeping its text as the key, and ends with the line 'POST Successful!'.
C21_FormPairsEchoed ==
    FormAnswered =>
        /\ \A i \in 1..Len(PairsAsStated(exch.request.body, 1)) :
              HasLine(exch.response.body.text,
                      PairsAsStated(exch.request.body, 1)[i][1] \o <<":", "SP">>
                        \o PairsAsStated(exch.request.body, 1)[i][2] \o <<"CRLF">>)
        /\ exch.response.body.text[Len(exch.response.body.text)] = "POST Successful!"

\* The part of C21 that holds: the same for bodies in which every pair has
\* its '='
C21_PairsWithEquals ==
    (/\ FormAnswered
     /\ \A i \in 1..Len(FormPairs(exch.request.body, 1)) :
           PairsAsStated(exch.request.body, 1)[i] = FormPairs(exch.request.body, 1)[i]) =>
        /\ \A i \in 1..Len(PairsAsStated(exch.request.body, 1)) :
              HasLine(exch.response.body.text,
                      PairsAsStated(exch.request.body, 1)[i][1] \o <<":", "SP">>
                        \o PairsAsStated(exch.request.body, 1)[i][2] \o <<"CRLF">>)
        /\ exch.response.body.text[Len(exch.response.body.text)] = "POST Successful!"

\* ---- Properties of reading and waiting (SpecConn)

\* recv reported would-block before the data held the header terminator
HeadersIncomplete ==
    /\ exch.recvEnd = "eagain"
    /\ FindCrlfCrlf(exch.arrived, 1) = 0

\* C22: when recv reports would-block while the headers are still
\* incomplete, the handler does not parse the partial bytes and answers
\* nothing: no exception is raised, nothing is sent, and the connection is
\* kept for the wait that follows.
C22_PartialHeadersWait ==
    HeadersIncomplete =>
        /\ exch.threw = "none"
        /\ exch.wire = <<>>
        /\ hpc \notin {"close", "done"}

\* The part of C22 that holds: whatever was parsed without an exception had
\* the header terminator in the data received
C22_ParsedHadTerminator ==
    (exch.recvEnd # "none" /\ exch.threw = "none") => FindCrlfCrlf(exch.arrived, 1) # 0

\* C23: waitForData is left either with data to read or to the close of the
\* connection, with the handler returning to its caller: on the timeout, on
\* the shutdown and on a poll error alike; and once running is false a
\* waiting handler takes no further slice and goes to the close.
C23_WaitLeavesToClose ==
    [][/\ (hpc = "wait" /\ hpc' # "wait") => hpc' \in {"handle", "close"}
       /\ (hpc = "wait" /\ ~running /\ hpc' # "wait") => hpc' = "close"
       /\ (hpc = "wait" /\ ~running) => totalElapsedMs' = totalElapsedMs]_vars

\* The part of C23 that holds in both handlers: the timeout and the shutdown
\* lead to the close, and so does the poll error in the second handler
C23_TimeoutAndShutdownClose ==
    [][/\ (hpc = "wait" /\ hpc' \notin {"wait", "handle", "close"}) =>
              (variant = 1 /\ running /\ totalElapsedMs < KEEP_ALIVE_TIMEOUT)
       /\ (hpc = "wait" /\ ~running /\ hpc' # "wait") => hpc' = "close"
       /\ (hpc = "wait" /\ ~running) => totalElapsedMs' = totalElapsedMs]_vars

\* C24: a connection that has completed a request is not closed by the
\* 500 ms check: a slice that ends the wait for a further request by closing
\* is one that has used up the keep-alive budget.
C24_ProactiveOnlyBeforeFirst ==
    [][(/\ hpc = "wait"
        /\ requestCount > 0
        /\ totalElapsedMs' > totalElapsedMs
        /\ hpc' = "close") => totalElapsedMs' >= KEEP_ALIVE_TIMEOUT]_vars

\* What holds of the 500 ms check: it is the first handler's alone, and there
\* it ends every wait, a first one or a later one, at 500 ms
C24_ProactiveEveryWait ==
    [][(/\ hpc = "wait"
        /\ totalElapsedMs' > totalElapsedMs) =>
            (hpc' = "close") = (variant = 1 /\ totalElapsedMs' >= proactiveTimeoutMs)]_vars

\* ---- Properties of sending (SpecConn)

\* The place of the first failing send among the results the OS gives to the
\* sends of the exchange; 0 when none fails
FirstFailure == FindTok(exch.outs, "fail", 1)

\* C25: what reaches the wire begins with the status line and headers; once
\* a send has failed nothing more is sent in the exchange, and after a
\* failed send the handler does not keep the connection.
C25_SendOrderAndAbort ==
    /\ exch.wire # <<>> => exch.wire[1].part = "head"
    /\ FirstFailure # 0 => Len(exch.wire) < FirstFailure
    /\ FirstFailure = 1 => ~exch.keepAlive

\* The part of C25 that holds: a response sent by sendResponse goes out
\* headers first, and when the send of the headers fails nothing at all is
\* sent for that response
C25_HeadersFirstOrNothing ==
    /\ (exch.wire # <<>> /\ exch.threw = "none") => exch.wire[1].part = "head"
    /\ (FirstFailure = 1 /\ (exch.threw = "none" \/ variant = 2)) => exch.wire = <<>>

\* ======================================================================
\* Properties of the GET builder (SpecConn)
\* ======================================================================

\* The exchange was answered 200 by the GET builder
GetAnswered ==
    /\ exch.threw = "none"
    /\ fromString(exch.request.method) = "GET"
    /\ exch.response.status = 200

\* C26: a successful GET response is static exactly when the size of the file
\* is above 131072 bytes; a static response has an empty body, its File-Path
\* header is the canonical path and its Content-Length the size stat gave; a
\* response that is not static carries the contents of the file as its body,
\* no File-Path header, and the length of that body as its Content-Length.
C26_GetPayloadSource ==
    GetAnswered =>
        LET r    == exch.response
            path == sanitizePath(UriChars(exch.request.uri)).path
            size == FileSize(realpath(path).segs)
            cl   == getHeader(r.headers, <<"Content-Length">>)
            fp   == getHeader(r.headers, <<"File-Path">>)
        IN /\ r.isStatic <=> size > 131072
           /\ r.isStatic =>
                /\ r.body = EmptyBody
                /\ fp.has /\ fp.val = path
                /\ cl.has /\ cl.val = <<ToString(size)>>
           /\ ~r.isStatic =>
                /\ r.body = FileBody(path, size)
                /\ ~fp.has
                /\ cl.has /\ cl.val = <<ToString(r.body.len)>>

\* C26 (witness): a file of exactly 131072 bytes was answered from memory
C26_ThresholdFileInMemory ==
    /\ GetAnswered
    /\ FileSize(realpath(sanitizePath(UriChars(exch.request.uri)).path).segs) = 131072
    /\ ~exch.response.isStatic
    /\ exch.response.body.len = 131072

\* C26 (static side): a file of 131073 bytes was answered by reference
C26_AboveThresholdStatic ==
    /\ GetAnswered
    /\ exch.response.isStatic
    /\ getHeader(exch.response.headers, <<"Content-Length">>).val = <<"131073">>

\* ======================================================================
\* Properties of the Socket handle (SpecSocket)
\* ======================================================================

\* The live Socket objects that hold descriptor fd
FdHolders(fd) == { o \in alive : socket_fd[o] = fd }

\* Every descriptor handed to a Socket is closed at most once, is held by
\* exactly one live object until then and by none afterwards
OwnedOnce ==
    \A fd \in Fds :
        /\ closes[fd] <= 1
        /\ (fd <= fdCount /\ closes[fd] = 0) => Cardinality(FdHolders(fd)) = 1
        /\ (fd > fdCount \/ closes[fd] = 1) => FdHolders(fd) = {}

C27_AllClosedOnce ==
    /\ alive = {}
    /\ fdCount = MaxFds
    /\ \A fd \in Fds : closes[fd] = 1

\* ======================================================================
\* Properties of Socket::send (SpecSend)
\* ======================================================================

\* The index in sysLog of the first system call that failed with a fatal
\* errno, or 0
FirstFatal ==
    IF \E i \in 1..Len(sysLog) : sysLog[i].res = "fail"
    THEN CHOOSE i \in 1..Len(sysLog) :
            /\ sysLog[i].res = "fail"
            /\ \A j \in 1..(i - 1) : sysLog[j].res # "fail"
    ELSE 0

\* C28: Socket::send returns only after all len bytes are written, retrying
\* on would-block; a failure of ::send other than would-block ends the call
\* with an error (it does not return normally), is not counted into the byte
\* total, and no byte already taken by the OS is sent again.
C28_SendAllOrError ==
    /\ (sendPc = "returned" /\ FirstFatal = 0) =>
            /\ sendRet = sendLen
            /\ Written(sysLog) = [i \in 1..sendLen |-> i]
    /\ (FirstFatal # 0 /\ sendPc # "sys") =>
            /\ sendPc = "threw"
            /\ FirstFatal = Len(sysLog)
            /\ totalSent = Len(Written(sysLog))
    /\ \A i, j \in 1..Len(Written(sysLog)) :
            i # j => Written(sysLog)[i] # Written(sysLog)[j]

\* C28 (what holds): as long as no ::send fails with a fatal errno, a call
\* that returns has written bytes 1..len once each, in order, returns len,
\* and a would-block answer leaves the byte total as it was
C28_CompleteWithoutFailure ==
    (FirstFatal = 0 /\ sendPc # "sys") =>
        /\ totalSent = Len(Written(sysLog))
        /\ Written(sysLog) = [i \in 1..totalSent |-> i]
        /\ sendPc = "returned" => sendRet = sendLen

\* C28 (reached): a call has returned len after a would-block answer
C28_RetriedAndReturned ==
    /\ sendPc = "returned"
    /\ sendLen > 1
    /\ sendRet = sendLen
    /\ \E i \in 1..Len(sysLog) : sysLog[i].res = "eagain"
    /\ Len(sysLog) > 2

\* C28 (reached): a byte the OS had taken was handed to ::send again after a
\* failure
C28_ByteSentTwice ==
    \E i, j \in 1..Len(Written(sysLog)) : i # j /\ Written(sysLog)[i] = Written(sysLog)[j]

\* ======================================================================
\* Properties of the event loop and the acceptor (SpecAccept)
\* ======================================================================

\* waitForEvents has returned a list
WaitReturned == lastWait.called /\ ~lastWait.threw

\* C29: waitForEvents returns exactly the descriptors that are ready, each
\* with its event mask: an empty list when the wait timed out or was
\* interrupted with nothing ready, and k entries when k descriptors are ready.
C29_ReturnsReadyOnly ==
    WaitReturned =>
        /\ Len(lastWait.returned) = Cardinality(lastWait.ready)
        /\ { lastWait.returned[i] : i \in 1..Len(lastWait.returned) }
              = { Event(fd) : fd \in lastWait.ready }
        /\ lastWait.ready = {} => lastWait.returned = <<>>

\* C29 (what holds): when k > 0 descriptors are ready the list has exactly
\* their k entries; when none is ready it has max_events entries, all zero
C29_ReadyOrZeroFilled ==
    WaitReturned =>
        IF lastWait.ready # {}
        THEN /\ lastWait.event_count = Cardinality(lastWait.ready)
             /\ Len(lastWait.returned) = lastWait.event_count
             /\ { lastWait.returned[i] : i \in 1..Len(lastWait.returned) }
                   = { Event(fd) : fd \in lastWait.ready }
        ELSE /\ lastWait.event_count <= 0
             /\ lastWait.returned = [i \in 1..max_events |-> ZeroEvent]

\* C29 (reached): two descriptors were ready and two entries returned
C29_TwoReady ==
    /\ WaitReturned
    /\ Cardinality(lastWait.ready) = 2
    /\ Len(lastWait.returned) = 2

\* The descriptors accept has returned and the loop is done with
Settled ==
    { ClientFd(n) : n \in 1..acceptCount } \ (IF lpc = "check" THEN {client_fd} ELSE {})

\* How often fd was passed to enqueue
TimesHanded(fd) == Cardinality({ i \in 1..Len(handed) : handed[i] = fd })

\* C30: a readiness event of the listening descriptor makes the acceptor call
\* accept until it reports would-block (or the server is stopped, which is
\* allowed here), and every descriptor accept returned
\* is wrapped in a Socket, set non-blocking and passed to enqueue exactly
\* once; an event of the wakeup descriptor leads to no accept.
C30_AcceptorDrain ==
    /\ [](\A fd \in Settled : TimesHanded(fd) = 1)
    /\ [][ /\ (lpc = "check" /\ lpc' = "iterate") => (acceptErr = "eagain" \/ ~running)
           /\ (lpc # "accept" /\ lpc' = "accept" /\ lpc # "check")
                => (events # <<>> /\ Head(events).fd = Fd.listen)
         ]_vars

\* C30 (what holds): no descriptor is passed to enqueue twice; one that is
\* settled without enqueue was accepted as the server stopped; the drain ends
\* on would-block or when running is false; only an entry of the listening
\* descriptor leads into acceptConnections
C30_DrainWhileRunning ==
    /\ [](\A fd \in Settled : TimesHanded(fd) <= 1)
    /\ []((\E fd \in Settled : TimesHanded(fd) = 0) => ~running)
    /\ [][ /\ (lpc = "check" /\ lpc' = "iterate") => (acceptErr = "eagain" \/ ~running)
           /\ (lpc # "accept" /\ lpc' = "accept" /\ lpc # "check")
                => (events # <<>> /\ Head(events).fd = Fd.listen)
         ]_vars

\* C30 (reached): one event of the listening descriptor, two connections
\* accepted and enqueued, then would-block
C30_DrainedTwo ==
    /\ lpc = "iterate"
    /\ acceptErr = "eagain"
    /\ running
    /\ Len(handed) >= 2
    /\ pending = 0

\* C30 (reached): a descriptor accept returned is owned by nothing
C30_DescriptorDropped ==
    \E fd \in Settled : TimesHanded(fd) = 0

\* ---- Properties of the end of start (LiveStop, SpecPool, SpecAccept)

\* start has returned: the dependencies, the multiplexer and the pool have
\* been released and the instance pointer cleared
StartReturned == apc \in {"destroyed", "exit"}

\* C31: once stop has set running to false the acceptor accepts no further
\* connection, its loop is left, and start returns after it has released the
\* shared dependencies, the multiplexer and the pool.
C31_AcceptorShutdown ==
    /\ [][~running => accepted' = accepted]_vars
    /\ ~running ~> StartReturned

\* The case of C31 in which the signal handler runs on the main thread while
\* that thread does not hold the queue mutex: there start does return
C31_MainThreadOutsideEnqueue ==
    (~running /\ sig = {AcceptorThread} /\ queue_mtx # Held(AcceptorThread, "thread"))
        ~> StartReturned

\* ---- Properties of the end of a connection (SpecConn)

\* C32: on every exit path of the connection handler the client socket is
\* shut down for both directions and then destroyed, exactly once, when the
\* handler's lifetime ends, and nothing is received or sent on it afterwards:
\* the socket only goes from open to shut down to destroyed, it is destroyed
\* from the shut-down state in the step that ends the handler, a handler that
\* has ended has destroyed it, and no poll or exchange takes place once the
\* socket is no longer open.
C32_ShutdownThenDestroyedOnce ==
    /\ [](hpc = "done" => sock = "closed")
    /\ [](hpc \in {"wait", "handle", "continue", "close"} => sock = "open")
    /\ [][/\ sock' # sock =>
               \/ sock = "open" /\ sock' = "shutdown" /\ hpc = "close"
               \/ sock = "shutdown" /\ sock' = "closed" /\ hpc' = "done"
          /\ sock # "open" => UNCHANGED <<exch, requestCount, totalElapsedMs>>]_vars

\* The handler has ended after one exchange while the server keeps running,
\* and its socket has been shut down and destroyed
C32_Witness ==
    /\ hpc = "done"
    /\ sock = "closed"
    /\ requestCount = 1
    /\ running

\* ---- Properties of the signal-driven stop (LiveStop, SpecPool)

\* C33: a call of HttpServer::stop made from the signal handler completes,
\* whichever thread the signal interrupts.
C33_SignalStopCompletes ==
    spc["signal"] # "none" ~> spc["signal"] = "done"

\* The first case C33 names: the handler's shutdown never waits for the queue
\* mutex while the acceptor thread it interrupted holds it inside enqueue
C33_NoLockHeldBelowHandler ==
    ~(/\ spc["signal"] = "sd_lock"
      /\ sig = {AcceptorThread}
      /\ queue_mtx = Held(AcceptorThread, "thread"))

\* The second case C33 names: the handler's shutdown never joins the worker
\* thread it runs on
C33_NoSelfJoin ==
    [][~crashed' \/ crashed \/ spc["signal"] # "join"]_vars

\* C34: whenever a call of ThreadPool::shutdown has returned, every worker
\* thread has exited and has been joined, and the pool is not destroyed while
\* a worker thread is still joinable.
C34_ShutdownReturnsAfterJoin ==
    /\ \A c \in Callers :
          spc[c] = "done" =>
              /\ \A w \in 1..numThreads : wpc[w] = "exited"
              /\ Range(joined) = 1..numThreads
    /\ apc \in {"destroyed", "exit"} => Range(joined) = 1..numThreads

\* The case of C34 without a race: a call of shutdown that found the stop
\* flag clear returns only after every worker has exited and been joined
C34_JoiningCallReturnsAfterJoin ==
    [][\A c \in Callers :
          (spc[c] = "join" /\ spc'[c] = "done") =>
              /\ \A w \in 1..numThreads : wpc[w] = "exited"
              /\ Range(joined) = 1..numThreads]_vars

\* ---- Properties of the shared dependencies (SpecPool)

\* start has reset factory, composer and resolver (and, later, the instance
\* pointer)
DependenciesReleased == apc \in {"released", "cleanup", "destroyed", "exit"}

\* C35: no worker runs a connection handler once start has reset the
\* factory, the composer and the resolver or cleared the instance pointer.
C35_DependenciesOutliveHandlers ==
    (DependenciesReleased /\ ~crashed) =>
        \A w \in 1..numThreads : wpc[w] # "handling"

\* ---- Properties of the accepted descriptors (SpecPool)

\* C36: every descriptor accept has returned is owned by a socket handle (the
\* acceptor's, an entry of the queue, a worker's or a handler's) until it is
\* closed: none is left without an owner while it is open.
C36_NoDescriptorLeaked ==
    \A s \in 1..accepted : s \in closed \/ Holders(s) = 1

\* The second case C36 names: a socket enqueue rejects because the pool is
\* stopping is destroyed, and its descriptor closed, when enqueue returns
C36_RejectedSocketClosed ==
    [][(apc = "enq_locked" /\ stop /\ apc' # apc) =>
          \E s \in Sockets : s = a_sock /\ s \in closed' /\ Holders(s)' = 0]_vars

\* ---- Properties of the Connection header (SpecConn)

\* C37: the Connection header of each response that was sent with its
\* headers agrees with what the handler does next: it closes the connection
\* only if the response carried Connection: close, and goes on to wait for a
\* further request only if the response carried Connection: keep-alive.
C37_HeaderAgreesWithAction ==
    [][(hpc = "continue" /\ hpc' # hpc /\ Delivered /\ WireConnection # <<>>) =>
          /\ hpc' = "close" => WireConnection = <<"close">>
          /\ hpc' = "wait" => WireConnection = <<"keep-alive">>]_vars

\* The case C37 names: the response that reaches the cap of 100 requests, after
\* which the handler closes, carries Connection: close
C37_CapResponseSaysClose ==
    (hpc = "continue" /\ Delivered /\ requestCount = MAX_KEEP_ALIVE_REQUESTS)
        => WireConnection = <<"close">>

\* The part of C37 that holds: below the cap, a response that carries
\* Connection: keep-alive and was built without an error is followed by the
\* wait for a further request, and a connection that is kept carried no
\* exception
C37_SuccessBelowCapAgrees ==
    [][(/\ hpc = "continue" /\ hpc' # hpc /\ Delivered
        /\ requestCount < MAX_KEEP_ALIVE_REQUESTS
        /\ exch.response.status = 200
        /\ ~PostSubmitAnswered) =>
          /\ hpc' = "close" <=> WireConnection = <<"close">>
          /\ hpc' = "wait" <=> WireConnection = <<"keep-alive">>]_vars

\* ---- Properties of the end of Socket::send and Socket::sendfile (LiveSend)

\* C38: every call of Socket::send and of Socket::sendfile returns, whatever
\* the OS answers to its system calls.
C38_SendTerminates ==
    sendPc \in {"loop", "sys"} ~> sendPc = "returned"

\* The part of C38 about fatal errors, which holds: each failure takes one off
\* totalSent, which never falls below SIZE_MAX (-1) and, once there, ends the
\* loop, so that a run of failures without end is impossible
C38_FatalErrorsCountDown ==
    /\ [](totalSent >= -1 /\ (totalSent = -1 => sendPc \in {"loop", "returned"}))
    /\ [][/\ (sendPc = "sys" /\ sysLog[Len(sysLog)].res = "fail") =>
                totalSent' = totalSent - 1
          /\ (sendPc = "loop" /\ totalSent = -1 /\ sendPc' # sendPc) =>
                sendPc' = "returned"]_vars

\* The case of C38 about sendfile: no call is back at the test of its loop
\* with bytes left to send after ::sendfile has answered 0, the file having
\* ended before count bytes were sent
C38_EndOfFileRepeats ==
    ~(/\ sendOp = "sendfile"
      /\ sendPc = "loop"
      /\ SizeLess(totalSent, sendLen)
      /\ sysLog # <<>>
      /\ sysLog[Len(sysLog)].res = "eof")

\* ---- Properties of the end of acceptConnections (LiveAccept)

\* The acceptor is inside the loop of acceptConnections
InAcceptConnections == lpc \in {"accept", "check"}

\* C39: acceptConnections returns after finitely many calls of accept: once
\* entered, its loop is left again, whatever accept answers.
C39_AcceptConnectionsReturns ==
    InAcceptConnections ~> ~InAcceptConnections

\* The part of C39 that holds: a would-block answer of accept ends the loop at
\* once, and so does a running flag that is false
C39_WouldBlockEndsDrain ==
    [][(lpc = "check" /\ lpc' # lpc /\ (~running \/ acceptErr = "eagain")) =>
          lpc' = "iterate"]_vars

\* What keeps the loop going: an answer of accept other than a descriptor or
\* would-block is never followed by a further call of accept
C39_ErrorNotRetried ==
    [][(lpc = "check" /\ running /\ client_fd < 0 /\ acceptErr = "error") =>
          lpc' # "accept"]_vars

====
